---- MODULE Spec2Model ----
(***************************************************************************)
(* A model of system-deps-meta: the merge engine (utils.rs, parse.rs), the *)
(* conditional reducers (utils.rs reduce, parse.rs MetadataNode::new) and  *)
(* the metadata graph traversal and aggregation of read_metadata.          *)
(***************************************************************************)
EXTENDS Integers, Sequences, FiniteSets, TLC

VARIABLES
    \* merge_default applied to a pair of tables
    m_pc, m_rhs, m_lhs, m_overwrite, m_res, m_again,
    \* reduce and MetadataNode::new applied to one raw document
    r_pc, r_table, r_rev, TARGET, r_reduced, r_node,
    \* read_metadata: the cargo metadata it reads, its position, the queue of
    \* the traversal, the node map, the visited set, the two accumulators, the
    \* worklist of the aggregation and the value returned; rm_log is the
    \* history of the aggregation: the node map as the traversal left it,
    \* the accumulators merged into the result so far, and the number of
    \* nodes taken from the worklist
    rm_data, rm_pc, rm_packages, rm_nodes, rm_visited, rm_res, rm_curr,
    rm_queue, rm_result, rm_merge, rm_log,
    \* Paths::from_iter: its position, the entries it is given, the names
    \* left to its first loop, the index it builds, the refresh tasks it has
    \* spawned, the holder of LOCK, the directories below BUILD_TARGET_DIR,
    \* the panics raised, the number of resolutions so far, what it returns,
    \* the name looked up afterwards with its result, and the entries and
    \* the outcome of the resolution before this one
    p_pc, p_binaries, p_pending, p_index, p_tasks, p_lock, p_fs, p_errors,
    p_runs, p_out, p_key, p_got, p_last

mergeVars == <<m_pc, m_rhs, m_lhs, m_overwrite, m_res, m_again>>
reduceVars == <<r_pc, r_table, r_rev, TARGET, r_reduced, r_node>>
metaVars == <<rm_data, rm_pc, rm_packages, rm_nodes, rm_visited, rm_res,
              rm_curr, rm_queue, rm_result, rm_merge, rm_log>>
pathVars == <<p_pc, p_binaries, p_pending, p_index, p_tasks, p_lock, p_fs,
              p_errors, p_runs, p_out, p_key, p_got, p_last>>
vars == <<mergeVars, reduceVars, metaVars, pathVars>>

(***************************************************************************)
(* toml::Value: a value is a pair <<discriminant, payload>>.  A table is a *)
(* function from its keys (strings) to values; an array is a sequence.     *)
(***************************************************************************)
String(s) == <<"String", s>>
Integer(i) == <<"Integer", i>>
Array(a) == <<"Array", a>>
Table(t) == <<"Table", t>>

discriminant(v) == v[1]
payload(v) == v[2]

EmptyTable == [k \in {} |-> String("")]

\* Table::insert / assignment through get_mut: key now maps to value.
insert(t, key, value) ==
    [k \in (DOMAIN t) \cup {key} |-> IF k = key THEN value ELSE t[k]]

\* Table::remove
remove(t, key) == [k \in (DOMAIN t) \ {key} |-> t[k]]

\* Result<Table, Error>
Ok(t) == [err |-> "", t |-> t]
Err(e) == [err |-> e, t |-> EmptyTable]
IsOk(r) == r.err = ""

\* Vec::contains
contains(a, value) == \E i \in 1..Len(a) : a[i] = value

(***************************************************************************)
(* Merge engine: utils.rs merge_default (and its copy parse.rs merge).     *)
(***************************************************************************)
IncompatibleMerge == "IncompatibleMerge"

\* a merge of arrays that appends without looking for duplicates
combine_arrays_append(r, l) == r \o l

\* utils.rs:29-33: push every element of l that r does not contain yet.
RECURSIVE combine_arrays(_, _)
combine_arrays(r, l) ==
    IF l = <<>> THEN r
    ELSE combine_arrays(IF contains(r, Head(l)) THEN r ELSE Append(r, Head(l)),
                        Tail(l))

\* an assignment of simple types that never reports a conflict
assign_simple_always(r, l, overwrite) == Ok(l)

\* utils.rs:42-47: simple types are replaced only when overwrite is set.
assign_simple(r, l, overwrite) ==
    IF ~overwrite THEN Err(IncompatibleMerge) ELSE Ok(l)

RECURSIVE merge_default(_, _, _)
RECURSIVE merge_loop(_, _, _, _)

\* a loop body without the discriminant test of utils.rs:22-24
merge_entry_unchecked(rhs, key, l, overwrite) ==
    IF key \notin DOMAIN rhs THEN Ok(insert(rhs, key, l))
    ELSE LET r == rhs[key] IN
         IF r = l THEN Ok(rhs)
         ELSE IF discriminant(r) = "Array" /\ discriminant(l) = "Array"
              THEN Ok(insert(rhs, key, Array(combine_arrays(payload(r), payload(l)))))
         ELSE IF discriminant(r) = "Table" /\ discriminant(l) = "Table"
              THEN LET sub == merge_default(payload(r), payload(l), overwrite) IN
                   IF IsOk(sub) THEN Ok(insert(rhs, key, Table(sub.t))) ELSE sub
         ELSE LET a == assign_simple(r, l, overwrite) IN
              IF IsOk(a) THEN Ok(insert(rhs, key, a.t)) ELSE a

\* utils.rs:10-48: the body of the loop for one (key, lhs) pair of the
\* incoming table; the result is the updated rhs table or the error returned.
merge_entry(rhs, key, l, overwrite) ==
    IF key \notin DOMAIN rhs THEN Ok(insert(rhs, key, l))
    ELSE LET r == rhs[key] IN
         IF r = l THEN Ok(rhs)
         ELSE IF discriminant(r) # discriminant(l) THEN Err(IncompatibleMerge)
         ELSE IF discriminant(r) = "Array"
              THEN Ok(insert(rhs, key, Array(combine_arrays(payload(r), payload(l)))))
         ELSE IF discriminant(r) = "Table"
              THEN LET sub == merge_default(payload(r), payload(l), overwrite) IN
                   IF IsOk(sub) THEN Ok(insert(rhs, key, Table(sub.t))) ELSE sub
         ELSE LET a == assign_simple(r, l, overwrite) IN
              IF IsOk(a) THEN Ok(insert(rhs, key, a.t)) ELSE a

\* utils.rs:9: for (key, lhs) in lhs, stopping at the first error.
merge_loop(rhs, lhs, keys, overwrite) ==
    IF keys = {} THEN Ok(rhs)
    ELSE LET key == CHOOSE k \in keys : TRUE
             step == merge_entry(rhs, key, lhs[key], overwrite)
         IN  IF IsOk(step)
             THEN merge_loop(step.t, lhs, keys \ {key}, overwrite)
             ELSE step

merge_default(rhs, lhs, overwrite) ==
    merge_loop(rhs, lhs, DOMAIN lhs, overwrite)

\* parse.rs:208-251 repeats merge_default statement by statement.
merge(rhs, lhs, force) == merge_default(rhs, lhs, force)

(***************************************************************************)
(* Predicates: cfg_expr's Expression::parse and Expression::eval, and the  *)
(* string operations on a key.  An Option is a record with the flag some.  *)
(***************************************************************************)
Some(v) == [some |-> TRUE, v |-> v]
None == [some |-> FALSE]

CfgNotObject == "CfgNotObject"
InvalidCfg == "InvalidCfg"
UnsupportedCfg == "UnsupportedCfg"

Linux == "x86_64-unknown-linux-gnu"
Windows == "x86_64-pc-windows-msvc"

\* the keys of the documents, in the order of their bytes
KeyOrder ==
    << "a", "added", "b", "cfg(all()", "cfg(all())", "cfg(any())",
       "cfg(feature = \"a\")", "cfg(target_os = \"linux\")", "cfg(unix",
       "cfg(unix)", "dep", "dep*", "dep2", "list", "main", "other", "value" >>

\* str::strip_prefix("cfg(")
strip_prefix(key) ==
    CASE key = "cfg(all()" -> Some("all()")
      [] key = "cfg(all())" -> Some("all())")
      [] key = "cfg(any())" -> Some("any())")
      [] key = "cfg(feature = \"a\")" -> Some("feature = \"a\")")
      [] key = "cfg(target_os = \"linux\")" -> Some("target_os = \"linux\")")
      [] key = "cfg(unix" -> Some("unix")
      [] key = "cfg(unix)" -> Some("unix)")
      [] OTHER -> None

\* str::strip_suffix(")")
strip_suffix(s) ==
    CASE s = "all()" -> Some("all(")
      [] s = "all())" -> Some("all()")
      [] s = "any())" -> Some("any()")
      [] s = "feature = \"a\")" -> Some("feature = \"a\"")
      [] s = "target_os = \"linux\")" -> Some("target_os = \"linux\"")
      [] s = "unix)" -> Some("unix")
      [] OTHER -> None

\* Expression::parse: the expression, or the parse error
parse(pred) ==
    CASE pred = "all()" -> Some([op |-> "all"])
      [] pred = "any()" -> Some([op |-> "any"])
      [] pred = "feature = \"a\"" -> Some([op |-> "feature"])
      [] pred = "target_os = \"linux\"" -> Some([op |-> "target", p |-> "os_linux"])
      [] pred = "unix" -> Some([op |-> "target", p |-> "family_unix"])
      [] OTHER -> None

\* TargetPredicate::matches
matches(p, target) == target = Linux

\* a closure that takes every predicate it does not know for false
eval_lenient(expr, target) ==
    CASE expr.op = "all" -> Some(TRUE)
      [] expr.op = "any" -> Some(FALSE)
      [] expr.op = "target" -> Some(matches(expr.p, target))
      [] OTHER -> Some(FALSE)

\* utils.rs:105-108: the closure knows the predicates on the target only;
\* an all() of nothing is true and an any() of nothing false
eval(expr, target) ==
    CASE expr.op = "all" -> Some(TRUE)
      [] expr.op = "any" -> Some(FALSE)
      [] expr.op = "target" -> Some(matches(expr.p, target))
      [] OTHER -> None

\* Result<bool, Error>
OkBool(b) == [err |-> "", b |-> b]
ErrBool(e) == [err |-> e, b |-> FALSE]

\* a check that takes a predicate for true whenever it parses
check_cfg_true(pred, target) ==
    IF parse(pred).some THEN OkBool(TRUE) ELSE ErrBool(InvalidCfg)

\* utils.rs:101-110
check_cfg(pred, target) ==
    LET expr == parse(pred) IN
    IF ~expr.some THEN ErrBool(InvalidCfg)
    ELSE LET res == eval(expr.v, target) IN
         IF res.some THEN OkBool(res.v) ELSE ErrBool(UnsupportedCfg)

\* the keys of table t in the order the loop takes them
iter(t, rev) ==
    LET InT(k) == k \in DOMAIN t
        asc == SelectSeq(KeyOrder, InT)
    IN  IF rev THEN [i \in 1..Len(asc) |-> asc[Len(asc) + 1 - i]] ELSE asc

(***************************************************************************)
(* Conditional reducer of utils.rs.  The state of the loop is the record   *)
(* of res and conditionals, with the error returned, if any.               *)
(***************************************************************************)
LoopState(res, cond) == [err |-> "", res |-> res, cond |-> cond]
LoopError(e) == [err |-> e, res |-> EmptyTable, cond |-> EmptyTable]

\* a fold of the predicate entries that lets a later predicate overwrite
RECURSIVE fold_conditionals_overwrite(_, _, _)
fold_conditionals_overwrite(conditionals, inner, keys) ==
    IF keys = <<>> THEN Ok(conditionals)
    ELSE LET inner_key == Head(keys)
             value == inner[inner_key]
         IN  IF ~(discriminant(value) = "Table") THEN Err(CfgNotObject)
             ELSE LET prev == IF inner_key \in DOMAIN conditionals
                              THEN payload(conditionals[inner_key])
                              ELSE EmptyTable
                      m == merge_default(prev, payload(value), TRUE)
                  IN  IF ~IsOk(m) THEN m
                      ELSE fold_conditionals_overwrite(
                               insert(conditionals, inner_key, Table(m.t)),
                               inner, Tail(keys))

\* utils.rs:73-82: each entry of a true predicate is merged, without
\* overwrite, into the entry of conditionals for its key
RECURSIVE fold_conditionals(_, _, _)
fold_conditionals(conditionals, inner, keys) ==
    IF keys = <<>> THEN Ok(conditionals)
    ELSE LET inner_key == Head(keys)
             value == inner[inner_key]
         IN  IF ~(discriminant(value) = "Table") THEN Err(CfgNotObject)
             ELSE LET prev == IF inner_key \in DOMAIN conditionals
                              THEN payload(conditionals[inner_key])
                              ELSE EmptyTable
                      m == merge_default(prev, payload(value), FALSE)
                  IN  IF ~IsOk(m) THEN m
                      ELSE fold_conditionals(
                               insert(conditionals, inner_key, Table(m.t)),
                               inner, Tail(keys))

RECURSIVE reduce(_, _, _)
RECURSIVE reduce_loop(_, _, _, _, _)

\* utils.rs:61-93: the body of the loop for one (key, value) pair
reduce_entry(st, key, value, rev, target) ==
    LET cfg == strip_prefix(key) IN
    IF cfg.some
    THEN LET pred == strip_suffix(cfg.v) IN
         IF ~pred.some THEN LoopError(UnsupportedCfg)
         ELSE LET c == check_cfg(pred.v, target) IN
              IF c.err # "" THEN LoopError(c.err)
              ELSE IF ~c.b THEN st
              ELSE IF ~(discriminant(value) = "Table") THEN LoopError(CfgNotObject)
              ELSE LET f == fold_conditionals(st.cond, payload(value),
                                              iter(payload(value), rev))
                   IN  IF IsOk(f) THEN LoopState(st.res, f.t) ELSE LoopError(f.err)
    ELSE IF discriminant(value) = "Table"
         THEN LET sub == reduce(payload(value), rev, target) IN
              IF IsOk(sub) THEN LoopState(insert(st.res, key, Table(sub.t)), st.cond)
              ELSE LoopError(sub.err)
         ELSE LoopState(insert(st.res, key, value), st.cond)

\* utils.rs:61: for (key, value) in table, stopping at the first error
reduce_loop(st, t, keys, rev, target) ==
    IF keys = <<>> \/ st.err # "" THEN st
    ELSE reduce_loop(reduce_entry(st, Head(keys), t[Head(keys)], rev, target),
                     t, Tail(keys), rev, target)

\* utils.rs:57-99
reduce(t, rev, target) ==
    LET st == reduce_loop(LoopState(EmptyTable, EmptyTable), t, iter(t, rev),
                          rev, target)
    IN  IF st.err # "" THEN Err(st.err)
        ELSE merge_default(st.res, st.cond, TRUE)

(***************************************************************************)
(* MetadataNode::new of parse.rs, the reducer read_metadata calls.         *)
(***************************************************************************)
\* parse.rs:33-51: the body of the loop for one (key, value) pair
new_entry(st, key, value, target) ==
    LET cfg == strip_prefix(key)
        pred == IF cfg.some THEN strip_suffix(cfg.v) ELSE None
    IN  IF pred.some
        THEN LET expr == parse(pred.v) IN
             IF ~expr.some THEN LoopError(InvalidCfg)
             ELSE LET res == eval(expr.v, target) IN
                  IF ~res.some THEN LoopError(UnsupportedCfg)
                  ELSE IF ~res.v THEN st
                  ELSE IF ~(discriminant(value) = "Table")
                       THEN LoopError(CfgNotObject)
                  ELSE LET m == merge(st.cond, payload(value), FALSE) IN
                       IF IsOk(m) THEN LoopState(st.res, m.t)
                       ELSE LoopError(m.err)
        ELSE LoopState(insert(st.res, key, value), st.cond)

\* parse.rs:31: for (key, value) in Table::try_from(value)?
RECURSIVE new_loop(_, _, _, _)
new_loop(st, t, keys, target) ==
    IF keys = <<>> \/ st.err # "" THEN st
    ELSE new_loop(new_entry(st, Head(keys), t[Head(keys)], target),
                  t, Tail(keys), target)

\* parse.rs:27-61: the table of the new node, or the error
MetadataNode_new(value, rev, target) ==
    LET st == new_loop(LoopState(EmptyTable, EmptyTable), value,
                       iter(value, rev), target)
    IN  IF st.err # "" THEN Err(st.err)
        ELSE merge(st.res, st.cond, TRUE)

(***************************************************************************)
(* merge_binary of binary.rs.  A panic of the process is a result with the *)
(* error Panic.                                                            *)
(***************************************************************************)
Panic == "panic"

\* toml::Value::get with a key: the entry of a table, none for other values
value_get(value, key) ==
    IF discriminant(value) = "Table" /\ key \in DOMAIN payload(value)
    THEN Some(payload(value)[key])
    ELSE None

\* an url of the incoming entry that leaves the accumulated entry alone
remove_follows_never(rhs, key, value) == rhs

\* binary.rs:352-356: an incoming entry with an url removes follows from the
\* accumulated entry of the same name
remove_follows(rhs, key, value) ==
    IF /\ value_get(value, "url").some
       /\ key \in DOMAIN rhs
       /\ discriminant(rhs[key]) = "Table"
    THEN insert(rhs, key, Table(remove(payload(rhs[key]), "follows")))
    ELSE rhs

\* a registration of provided names that keeps the url of the entry
RECURSIVE register_provides_keeping_url(_, _, _)
register_provides_keeping_url(rhs, key, provides) ==
    IF provides = <<>> THEN Ok(rhs)
    ELSE LET name == Head(provides) IN
         IF discriminant(name) # "String" THEN Err(IncompatibleMerge)
         ELSE LET n == payload(name) IN
              IF n \in DOMAIN rhs /\ discriminant(rhs[n]) # "Table"
              THEN Err(Panic)
              ELSE LET pkg == IF n \in DOMAIN rhs THEN payload(rhs[n])
                                                  ELSE EmptyTable
                       followed == insert(pkg, "follows", String(key))
                   IN  register_provides_keeping_url(
                           insert(rhs, n, Table(followed)), key,
                           Tail(provides))

\* binary.rs:357-368: every provided name gets an accumulated entry that
\* follows key and has no url
RECURSIVE register_provides(_, _, _)
register_provides(rhs, key, provides) ==
    IF provides = <<>> THEN Ok(rhs)
    ELSE LET name == Head(provides) IN
         IF discriminant(name) # "String" THEN Err(IncompatibleMerge)
         ELSE LET n == payload(name) IN
              IF n \in DOMAIN rhs /\ discriminant(rhs[n]) # "Table"
              THEN Err(Panic)
              ELSE LET pkg == IF n \in DOMAIN rhs THEN payload(rhs[n])
                                                  ELSE EmptyTable
                       followed == insert(pkg, "follows", String(key))
                   IN  register_provides(
                           insert(rhs, n, Table(remove(followed, "url"))),
                           key, Tail(provides))

\* binary.rs:351-369: the loop over the incoming entries, in key order
RECURSIVE update_loop(_, _, _)
update_loop(rhs, lhs, keys) ==
    IF keys = <<>> THEN Ok(rhs)
    ELSE LET key == Head(keys)
             value == lhs[key]
             cleared == remove_follows(rhs, key, value)
             provides == value_get(value, "provides")
             step == IF provides.some /\ discriminant(provides.v) = "Array"
                     THEN register_provides(cleared, key, payload(provides.v))
                     ELSE Ok(cleared)
         IN  IF IsOk(step) THEN update_loop(step.t, lhs, Tail(keys)) ELSE step

\* a final test that accepts every table
both_url_and_follows_ignored(rhs) == FALSE

\* binary.rs:376-380: some entry has an url and follows
both_url_and_follows(rhs) ==
    \E k \in DOMAIN rhs :
        value_get(rhs[k], "url").some /\ value_get(rhs[k], "follows").some

\* binary.rs:348-383
merge_binary(rhs, lhs, overwrite) ==
    LET updated == IF overwrite THEN update_loop(rhs, lhs, iter(lhs, FALSE))
                                ELSE Ok(rhs)
    IN  IF ~IsOk(updated) THEN updated
        ELSE LET merged == merge_default(updated.t, lhs, overwrite) IN
             IF ~IsOk(merged) THEN merged
             ELSE IF both_url_and_follows(merged.t)
                  THEN Err(IncompatibleMerge)
                  ELSE merged

(***************************************************************************)
(* The entries of binary.rs.  A path is the sequence of its components     *)
(* below BUILD_TARGET_DIR; the index Paths is the record of its three      *)
(* maps.                                                                   *)
(***************************************************************************)
IsString(v) == discriminant(v) = "String"

\* binary.rs:67-72 and 96-123: the untagged deserialisation of an entry,
\* FollowBinary tried first; an entry that is neither is Invalid
Binary(value) ==
    LET follows == value_get(value, "follows")
        url == value_get(value, "url")
        checksum == value_get(value, "checksum")
        paths == value_get(value, "paths")
    IN  IF follows.some /\ IsString(follows.v)
        THEN [kind |-> "Follow", follows |-> payload(follows.v)]
        ELSE IF /\ url.some /\ IsString(url.v)
                /\ checksum.some => IsString(checksum.v)
                /\ paths.some =>
                       /\ discriminant(paths.v) = "Array"
                       /\ \A i \in 1..Len(payload(paths.v)) :
                              IsString(payload(paths.v)[i])
             THEN [kind |-> "Url",
                   url |-> payload(url.v),
                   checksum |-> IF checksum.some
                                THEN Some(payload(checksum.v)) ELSE None,
                   paths |-> IF paths.some
                             THEN Some([i \in 1..Len(payload(paths.v)) |->
                                           payload(payload(paths.v)[i])])
                             ELSE None]
             ELSE [kind |-> "Invalid"]

\* Path::new(BUILD_TARGET_DIR).join(name) and dst.join(p)
destination(name) == <<name>>
join(dst, p) == Append(dst, p)

\* Paths::default()
NoPaths == [paths |-> <<>>, follows |-> <<>>, wildcards |-> <<>>]

\* a list that starts from the destination when no path is configured
entry_paths_or_destination(name, bin) ==
    IF bin.paths.some
    THEN [i \in 1..Len(bin.paths.v) |-> join(destination(name), bin.paths.v[i])]
    ELSE <<destination(name)>>

\* binary.rs:157-160: the configured paths below the destination
entry_paths(name, bin) ==
    IF bin.paths.some
    THEN [i \in 1..Len(bin.paths.v) |-> join(destination(name), bin.paths.v[i])]
    ELSE <<>>

\* str::strip_suffix("*") on the name of an entry
strip_wildcard(name) ==
    CASE name = "dep*" -> Some("dep")
      [] OTHER -> None

\* str::starts_with on the names looked up
starts_with(key, prefix) ==
    \/ key = prefix
    \/ prefix = "dep" /\ key \in {"dep*", "dep2"}

\* HashMap::insert
put(map, key, value) ==
    [k \in DOMAIN map \cup {key} |-> IF k = key THEN value ELSE map[k]]

\* a registration that keeps a wildcard name among the exact aliases
register_alias_exact(res, name, follows) ==
    [res EXCEPT !.follows = put(res.follows, name, follows)]

\* binary.rs:200-203: the entry of an alias, by prefix when the name ends
\* with a star
register_alias(res, name, follows) ==
    LET wildcard == strip_wildcard(name) IN
    IF wildcard.some
    THEN [res EXCEPT !.wildcards = put(res.wildcards, wildcard.v, follows)]
    ELSE [res EXCEPT !.follows = put(res.follows, name, follows)]

InvalidFollows(name, follows) == <<"InvalidFollows", name, follows>>

\* a loop that registers every alias, whatever its target
RECURSIVE follow_binaries_unchecked(_, _, _)
follow_binaries_unchecked(res, binaries, names) ==
    IF names = <<>> THEN [ok |-> TRUE, paths |-> res]
    ELSE follow_binaries_unchecked(
             register_alias(res, Head(names),
                            Binary(binaries[Head(names)]).follows),
             binaries, Tail(names))

\* binary.rs:192-204: the loop over the aliases; the first alias whose
\* target has no paths stops it
RECURSIVE follow_binaries(_, _, _)
follow_binaries(res, binaries, names) ==
    IF names = <<>> THEN [ok |-> TRUE, paths |-> res]
    ELSE LET name == Head(names)
             bin == Binary(binaries[name])
         IN  IF bin.follows \notin DOMAIN res.paths
             THEN [ok |-> FALSE, err |-> InvalidFollows(name, bin.follows)]
             ELSE follow_binaries(register_alias(res, name, bin.follows),
                                  binaries, Tail(names))

\* a lookup that asks the wildcards before the exact aliases
get_wildcard_first(index, key) ==
    LET matching == {k \in DOMAIN index.wildcards :
                        /\ starts_with(key, k)
                        /\ index.wildcards[k] \in DOMAIN index.paths}
    IN  IF key \in DOMAIN index.paths THEN {Some(index.paths[key])}
        ELSE IF matching # {}
        THEN {Some(index.paths[index.wildcards[k]]) : k \in matching}
        ELSE IF key \in DOMAIN index.follows
             THEN IF index.follows[key] \in DOMAIN index.paths
                  THEN {Some(index.paths[index.follows[key]])}
                  ELSE {None}
        ELSE {None}

\* binary.rs:211-227, Paths::get: the results the lookup can give, one for
\* each matching wildcard the hash map can yield first
get(index, key) ==
    LET matching == {k \in DOMAIN index.wildcards :
                        /\ starts_with(key, k)
                        /\ index.wildcards[k] \in DOMAIN index.paths}
    IN  IF key \in DOMAIN index.paths THEN {Some(index.paths[key])}
        ELSE IF key \in DOMAIN index.follows
             THEN IF index.follows[key] \in DOMAIN index.paths
                  THEN {Some(index.paths[index.follows[key]])}
                  ELSE {None}
        ELSE IF matching = {} THEN {None}
        ELSE {Some(index.paths[index.wildcards[k]]) : k \in matching}

(***************************************************************************)
(* The sources an url can name and the directories of the destinations.    *)
(* A source is what lies behind the url: whether the url is local, whether *)
(* its path is a directory, the extension of the path, the digest of the   *)
(* bytes a read or a download returns (none when it fails), whether those  *)
(* bytes unpack, and the paths of the info.toml the content holds.         *)
(***************************************************************************)
Source(local, is_dir, ext, bytes, unpacks, info) ==
    [local |-> local, is_dir |-> is_dir, ext |-> ext, bytes |-> bytes,
     unpacks |-> unpacks, info |-> info]

\* binary.rs:265-268 with the state of the machine the build runs on
source(url) ==
    CASE url = "file:///src/a" ->
             Source(TRUE, TRUE, None, None, FALSE, None)
      [] url = "file:///src/dep" ->
             Source(TRUE, TRUE, None, None, FALSE, Some(<<"extra">>))
      [] url = "/src/a" ->
             Source(FALSE, TRUE, None, None, FALSE, None)
      [] url = "file:///src/a.tar.gz" ->
             Source(TRUE, FALSE, Some("gz"), Some("d1"), TRUE,
                    Some(<<"lib", "extra">>))
      [] url = "file:///src/bad.tar.xz" ->
             Source(TRUE, FALSE, Some("xz"), Some("d2"), FALSE, None)
      [] url = "file:///src/missing.tgz" ->
             Source(TRUE, FALSE, Some("tgz"), None, FALSE, None)
      [] url = "http://host/a.zip" ->
             Source(FALSE, FALSE, Some("zip"), Some("d3"), TRUE, None)
      [] url = "http://host/missing.zip" ->
             Source(FALSE, FALSE, Some("zip"), None, FALSE, None)
      [] url = "http://unsuported.ext" ->
             Source(FALSE, FALSE, Some("ext"), Some("d4"), FALSE, None)
      [] url = "http://no_ext" ->
             Source(FALSE, FALSE, None, Some("d5"), FALSE, None)
      [] OTHER -> Source(FALSE, FALSE, None, None, FALSE, None)

\* str::strip_prefix("file://")
strip_file(url) ==
    CASE url = "file:///src/a" -> "/src/a"
      [] url = "file:///src/dep" -> "/src/dep"
      [] url = "file:///src/a.tar.gz" -> "/src/a.tar.gz"
      [] url = "file:///src/bad.tar.xz" -> "/src/bad.tar.xz"
      [] url = "file:///src/missing.tgz" -> "/src/missing.tgz"
      [] OTHER -> url

UnsupportedExtension(e) == <<"UnsupportedExtension", e>>
DirectoryIsFile == <<"DirectoryIsFile">>
LocalFileError == <<"LocalFileError">>
DownloadError == <<"DownloadError">>
DecompressError == <<"DecompressError">>
SymlinkError == <<"SymlinkError">>
InvalidChecksum(url, declared, calculated) ==
    <<"InvalidChecksum", url, declared, calculated>>

\* an extension test that takes every extension for a tar.gz archive
Extension_any(src) ==
    IF src.is_dir THEN [ok |-> TRUE, ext |-> "Folder"]
    ELSE [ok |-> TRUE, ext |-> "TarGz"]

\* binary.rs:42-63, Extension::try_from a path, every archive feature on
Extension(src) ==
    IF src.is_dir THEN [ok |-> TRUE, ext |-> "Folder"]
    ELSE IF ~src.ext.some
         THEN [ok |-> FALSE, err |-> UnsupportedExtension("<error>")]
    ELSE IF src.ext.v \in {"gz", "tgz"} THEN [ok |-> TRUE, ext |-> "TarGz"]
    ELSE IF src.ext.v = "xz" THEN [ok |-> TRUE, ext |-> "TarXz"]
    ELSE IF src.ext.v = "zip" THEN [ok |-> TRUE, ext |-> "Zip"]
    ELSE [ok |-> FALSE, err |-> UnsupportedExtension(src.ext.v)]

\* a destination: nothing, a plain file, a directory or a link to a source
\* folder; marker is the content of its checksum file, payload the digest
\* of the archive unpacked into it ("partial" after an unpacking that
\* failed), info the paths of its info.toml
Absent ==
    [kind |-> "absent", link |-> "", marker |-> None, payload |-> None,
     info |-> None]
PlainFile == [Absent EXCEPT !.kind = "file"]
Directory(marker, unpacked, info) ==
    [kind |-> "dir", link |-> "", marker |-> marker, payload |-> unpacked,
     info |-> info]
LinkTo(path, info) == [Absent EXCEPT !.kind = "link", !.link = path,
                                      !.info = info]

\* a validity test that trusts every existing directory with a marker
Valid(b) == [ok |-> TRUE, b |-> b]
Invalid(e) == [ok |-> FALSE, err |-> e]

check_valid_dir_any_marker(dst, checksum) ==
    IF dst.kind = "absent" THEN Valid(FALSE)
    ELSE IF dst.kind = "file" THEN Invalid(DirectoryIsFile)
    ELSE Valid(checksum.some /\ dst.marker.some)

\* binary.rs:235-257
check_valid_dir(dst, checksum) ==
    IF dst.kind = "absent" THEN Valid(FALSE)
    ELSE IF dst.kind = "file" THEN Invalid(DirectoryIsFile)
    ELSE IF checksum.some
         THEN Valid(dst.marker.some /\ checksum.v = dst.marker.v)
         ELSE Valid(FALSE)

\* a verification that accepts every digest
verify_checksum_unchecked(url, checksum, calculated) ==
    [ok |-> TRUE, checksum |-> calculated]

\* binary.rs:299-308: the declared checksum must be the digest of the bytes
verify_checksum(url, checksum, calculated) ==
    IF checksum.some /\ checksum.v = calculated
    THEN [ok |-> TRUE, checksum |-> checksum.v]
    ELSE [ok |-> FALSE,
          err |-> InvalidChecksum(url, IF checksum.some THEN checksum.v
                                                         ELSE "<empty>",
                                  calculated)]

(***************************************************************************)
(* read_metadata of parse.rs.  A package is known by its name; a node is   *)
(* the record of MetadataNode; the virtual root has the empty name.        *)
(***************************************************************************)
PackageNotFound == "PackageNotFound"

\* the names of the packages and of the root, in the order of their bytes
NameOrder == << "", "a", "b", "dep", "main" >>

MetadataNode(t) == [table |-> t, parents |-> {}, children |-> 0]

\* the merge function the caller passes, as applied at parse.rs:195 with the
\* accumulator as base and the arguments exchanged
merge_path_swapped(acc, t) == merge_default(t, acc, TRUE)

\* parse.rs:74: the merge function the caller passes, merge_default or
\* merge_binary
merge_fn(rhs, lhs, overwrite) ==
    IF rm_merge = "merge_binary" THEN merge_binary(rhs, lhs, overwrite)
                                 ELSE merge_default(rhs, lhs, overwrite)

\* parse.rs:195: merge(&mut curr, node.table, true)
merge_path(acc, t) == merge_fn(acc, t, TRUE)

\* a merge into the result that lets the later path overwrite
merge_result_overwrite(acc, t) == merge_default(acc, t, TRUE)

\* parse.rs:198: merge(&mut res, curr, false)
merge_result(acc, t) == merge_fn(acc, t, FALSE)

\* a root node that ignores the workspace metadata
root_node_default(metadata) == MetadataNode(EmptyTable)

\* parse.rs:82-87: the root node from the workspace metadata; no section, or
\* a section MetadataNode::new fails on, gives the default node
root_node(metadata) ==
    IF ~metadata.workspace_metadata.some THEN MetadataNode(EmptyTable)
    ELSE LET n == MetadataNode_new(metadata.workspace_metadata.v, FALSE, TARGET)
         IN  IF IsOk(n) THEN MetadataNode(n.t) ELSE MetadataNode(EmptyTable)

\* parse.rs:90-97: the root package, or else every workspace member, each
\* with the root as parent
starting_points(metadata) ==
    IF metadata.root_package.some THEN << <<metadata.root_package.v, "">> >>
    ELSE [i \in 1..Len(metadata.workspace_packages) |->
             <<metadata.workspace_packages[i], "">>]

\* a record of the parent that counts no child
add_parent_uncounted(ns, name, parent) ==
    [ns EXCEPT ![name].parents = @ \cup {parent}]

\* parse.rs:109-113 and 137-141: record parent in the parents of name and,
\* when it is new there, count one more child of parent
add_parent(ns, name, parent) ==
    IF parent \in ns[name].parents THEN ns
    ELSE LET n1 == [ns EXCEPT ![name].parents = @ \cup {parent}] IN
         IF parent \in DOMAIN n1
         THEN [n1 EXCEPT ![parent].children = @ + 1]
         ELSE n1

\* parse.rs:148-159: the normal dependencies that name a known package,
\* each queued with next_parent
RECURSIVE dependencies(_, _, _)
dependencies(metadata, deps, next_parent) ==
    IF deps = <<>> THEN <<>>
    ELSE LET dep == Head(deps)
             more == dependencies(metadata, Tail(deps), next_parent)
         IN  IF dep.kind # "Normal" THEN more
             ELSE IF dep.name \in metadata.packages
                  THEN << <<dep.name, next_parent>> >> \o more
                  ELSE more

\* the members of a set of names as a sequence, in descending order
descending(names) ==
    LET In(n) == n \in names
        asc == SelectSeq(NameOrder, In)
    IN  [i \in 1..Len(asc) |-> asc[Len(asc) + 1 - i]]

\* parse.rs:183-193: every parent, from the last to the first, is put at the
\* front of the queue: a clone while it counts a child, the node itself
\* (removed from the map) otherwise
RECURSIVE push_parents(_, _, _)
push_parents(ns, q, ps) ==
    IF ps = <<>> THEN [err |-> "", nodes |-> ns, queue |-> q]
    ELSE LET p == Head(ps) IN
         IF p \notin DOMAIN ns
         THEN [err |-> PackageNotFound, nodes |-> ns, queue |-> q]
         ELSE IF ns[p].children >= 1
              THEN push_parents(ns, <<ns[p]>> \o q, Tail(ps))
              ELSE push_parents([n \in (DOMAIN ns) \ {p} |-> ns[n]],
                                <<ns[p]>> \o q, Tail(ps))

(***************************************************************************)
(* Inputs of the merge engine: tables of two keys whose values are simple  *)
(* values, arrays (duplicates included) and tables nested two deep.        *)
(***************************************************************************)
MaxArrayLen == 2

Scalars == {String("a"), String("b"), Integer(1)}
ElemVals == {String("a"), String("b")}
Arrays == {Array(a) : a \in UNION {[1..n -> ElemVals] : n \in 0..MaxArrayLen}}

\* every table with keys among keys and values among vals
TablesOver(keys, vals) == UNION {[d -> vals] : d \in SUBSET keys}

InnermostTables == TablesOver({"y"}, {String("a"), Integer(1)})
InnerVals ==
    Scalars \cup {Array(<<String("a")>>), Array(<<String("b")>>)}
            \cup {Table(t) : t \in InnermostTables}
InnerTables == TablesOver({"x"}, InnerVals)
FullVals == Scalars \cup Arrays \cup {Table(t) : t \in InnerTables}
SideVals == {String("a"), String("b"), Array(<<String("a")>>),
             Table([x |-> String("a")])}
MergeTables ==
    {[k \in d1 \cup d2 |-> IF k = "k1" THEN v1 ELSE v2] :
        d1 \in SUBSET {"k1"}, d2 \in SUBSET {"k2"},
        v1 \in FullVals, v2 \in SideVals}

NoResult == Err("not run")
NoLog == [graph |-> <<>>, flushed |-> <<>>, steps |-> 0]

\* the variables of a part of the model that a specification leaves alone
IdleMerge ==
    /\ m_pc = "idle"
    /\ m_rhs = EmptyTable
    /\ m_lhs = EmptyTable
    /\ m_overwrite = FALSE
    /\ m_res = NoResult
    /\ m_again = NoResult

IdleReduce ==
    /\ r_pc = "idle"
    /\ r_table = EmptyTable
    /\ r_rev = FALSE
    /\ TARGET = Linux
    /\ r_reduced = NoResult
    /\ r_node = NoResult

NoOutput == [err |-> {<<"not run">>}, index |-> NoPaths]
Destinations == {"a", "b", "dep", "dep*", "dep2", "main"}

IdlePaths ==
    /\ p_pc = "idle"
    /\ p_binaries = EmptyTable
    /\ p_pending = <<>>
    /\ p_index = NoPaths
    /\ p_tasks = <<>>
    /\ p_lock = ""
    /\ p_fs = [n \in Destinations |-> Absent]
    /\ p_errors = {}
    /\ p_runs = 0
    /\ p_out = NoOutput
    /\ p_key = ""
    /\ p_got = None
    /\ p_last = [binaries |-> EmptyTable, out |-> NoOutput]

IdleMeta ==
    /\ rm_pc = "idle"
    /\ rm_data = [root_package |-> None, workspace_packages |-> <<>>,
                  packages |-> {}, dependencies |-> <<>>, metadata |-> <<>>,
                  workspace_metadata |-> None]
    /\ rm_packages = <<>>
    /\ rm_nodes = <<>>
    /\ rm_visited = {}
    /\ rm_res = EmptyTable
    /\ rm_curr = EmptyTable
    /\ rm_queue = <<>>
    /\ rm_result = NoResult
    /\ rm_merge = "merge_default"
    /\ rm_log = NoLog

InitMerge ==
    /\ m_pc = "start"
    /\ m_rhs \in MergeTables
    /\ m_lhs \in MergeTables
    /\ m_overwrite \in BOOLEAN
    /\ m_res = NoResult
    /\ m_again = NoResult
    /\ IdleReduce
    /\ IdleMeta
    /\ IdlePaths

\* merge_default(&mut rhs, lhs, overwrite)
Merge ==
    /\ m_pc = "start"
    /\ m_res' = merge_default(m_rhs, m_lhs, m_overwrite)
    /\ m_pc' = "merged"
    /\ UNCHANGED <<m_rhs, m_lhs, m_overwrite, m_again, reduceVars, metaVars, pathVars>>

\* the same incoming table merged a second time into the result
MergeAgain ==
    /\ m_pc = "merged"
    /\ IsOk(m_res)
    /\ m_again' = merge_default(m_res.t, m_lhs, m_overwrite)
    /\ m_pc' = "again"
    /\ UNCHANGED <<m_rhs, m_lhs, m_overwrite, m_res, reduceVars, metaVars, pathVars>>

NextMerge == Merge \/ MergeAgain

SpecMerge == InitMerge /\ [][NextMerge]_vars

(***************************************************************************)
(* Inputs of the reducers: raw documents of at most MaxDocKeys keys, the   *)
(* key dep with an unconditioned configuration and predicate keys with a   *)
(* table of configurations, a table that is none, or no table at all.      *)
(***************************************************************************)
MaxDocKeys == 3

CfgKeys ==
    { "cfg(all()", "cfg(all())", "cfg(any())", "cfg(feature = \"a\")",
      "cfg(target_os = \"linux\")", "cfg(unix", "cfg(unix)" }
PlainVals ==
    { Table([value |-> String("default"), other |-> Integer(32)]),
      Table([value |-> Integer(1)]),
      Table([list |-> Array(<<String("a")>>)]) }
CfgVals ==
    { Integer(1234),
      Table([dep |-> Integer(1234)]),
      Table([dep |-> Table([value |-> String("final")])]),
      Table([dep |-> Table([value |-> String("linux")])]),
      Table([dep |-> Table([list |-> Array(<<String("b")>>),
                            added |-> String("top")])]) }
RawDocs ==
    UNION { { t \in [d -> PlainVals \cup CfgVals] :
                \A k \in d : IF k = "dep" THEN t[k] \in PlainVals
                                          ELSE t[k] \in CfgVals }
            : d \in { d \in SUBSET (CfgKeys \cup {"dep"}) :
                         Cardinality(d) <= MaxDocKeys } }

InitReduce ==
    /\ r_pc = "start"
    /\ r_table \in RawDocs
    /\ r_rev \in BOOLEAN
    /\ TARGET \in {Linux, Windows}
    /\ r_reduced = NoResult
    /\ r_node = NoResult
    /\ IdleMerge
    /\ IdleMeta
    /\ IdlePaths

\* reduce(table)
Reduce ==
    /\ r_pc = "start"
    /\ r_reduced' = reduce(r_table, r_rev, TARGET)
    /\ r_pc' = "reduced"
    /\ UNCHANGED <<r_table, r_rev, TARGET, r_node, mergeVars, metaVars, pathVars>>

\* MetadataNode::new(value)
New ==
    /\ r_pc = "reduced"
    /\ r_node' = MetadataNode_new(r_table, r_rev, TARGET)
    /\ r_pc' = "done"
    /\ UNCHANGED <<r_table, r_rev, TARGET, r_reduced, mergeVars, metaVars, pathVars>>

NextReduce == Reduce \/ New

SpecReduce == InitReduce /\ [][NextReduce]_vars

(***************************************************************************)
(* Inputs of read_metadata: the packages main, a, b and dep with at most   *)
(* MaxEdges normal dependencies among them; a package has no section, or   *)
(* one that sets dep.value, or one that sets another key of dep; the       *)
(* workspace has no section or one that sets dep.value; main is the root   *)
(* package, or the workspace is virtual with the members a and b.          *)
(***************************************************************************)
MaxEdges == 4

Packages == {"a", "b", "dep", "main"}
Edges ==
    { <<"main", "a">>, <<"main", "b">>, <<"main", "dep">>,
      <<"a", "b">>, <<"a", "dep">>, <<"b", "dep">> }
Graphs == {E \in SUBSET Edges : Cardinality(E) <= MaxEdges}

\* pkg.dependencies of the package p in the graph E
DependenciesOf(E, p) ==
    LET In(n) == <<p, n>> \in E
        names == SelectSeq(NameOrder, In)
    IN  [i \in 1..Len(names) |-> [name |-> names[i], kind |-> "Normal"]]

\* the packages a set of packages reaches along the dependencies of E
Step(E, S) == S \cup {e[2] : e \in {d \in E : d[1] \in S}}
Reach(E, S) == Step(E, Step(E, Step(E, S)))

Sets(v) == [dep |-> Table([value |-> String(v)])]
Sections ==
    { None, Some(Sets("original")), Some(Sets("final")),
      Some([dep |-> Table([other |-> Integer(32)])]) }
WorkspaceSections == { None, Some(Sets("workspace")) }

Metadatas ==
    { [root_package |-> root,
       workspace_packages |-> IF root.some THEN <<"main">> ELSE <<"a", "b">>,
       packages |-> Packages,
       dependencies |-> [p \in Packages |-> DependenciesOf(E, p)],
       metadata |-> sec,
       workspace_metadata |-> ws] :
      E \in Graphs, root \in {Some("main"), None},
      sec \in [Packages -> Sections], ws \in WorkspaceSections }

\* the packages the traversal starts from
Members(metadata) ==
    {metadata.workspace_packages[i] :
        i \in 1..Len(metadata.workspace_packages)}

DependencyEdges(metadata) ==
    {e \in Packages \X Packages :
        \E i \in 1..Len(metadata.dependencies[e[1]]) :
            metadata.dependencies[e[1]][i].name = e[2]}

\* a package the traversal never reaches has no dependency and no section
Canonical(metadata) ==
    LET E == DependencyEdges(metadata)
        live == Reach(E, Members(metadata))
    IN  /\ \A e \in E : e[1] \in live
        /\ \A p \in Packages \ live : ~metadata.metadata[p].some

InitMeta ==
    /\ IdleMerge
    /\ IdleReduce
    /\ IdlePaths
    /\ rm_data \in {metadata \in Metadatas : Canonical(metadata)}
    /\ rm_pc = "traverse"
    /\ rm_packages = starting_points(rm_data)
    /\ rm_nodes = [n \in {""} |-> root_node(rm_data)]
    /\ rm_visited = {}
    /\ rm_res = EmptyTable
    /\ rm_curr = EmptyTable
    /\ rm_queue = <<>>
    /\ rm_result = NoResult
    /\ rm_merge = "merge_default"
    /\ rm_log = NoLog

\* parse.rs:103-116: the package at the front of the queue was handled
\* already; only its parents are updated
Revisit ==
    /\ rm_pc = "traverse"
    /\ rm_packages # <<>>
    /\ LET name == Head(rm_packages)[1]
           parent == Head(rm_packages)[2]
       IN  /\ name \in rm_visited
           /\ rm_nodes' = IF name \in DOMAIN rm_nodes
                          THEN add_parent(rm_nodes, name, parent)
                          ELSE rm_nodes
           /\ rm_packages' = Tail(rm_packages)
    /\ UNCHANGED <<rm_log, rm_merge, rm_data, rm_pc, rm_visited, rm_res, rm_curr, rm_queue,
                   rm_result, mergeVars, reduceVars,
                   pathVars>>

\* parse.rs:103-160: the package at the front of the queue is visited for
\* the first time
Visit ==
    /\ rm_pc = "traverse"
    /\ rm_packages # <<>>
    /\ LET name == Head(rm_packages)[1]
           parent == Head(rm_packages)[2]
           s == rm_data.metadata[name]
           create == name \notin DOMAIN rm_nodes /\ s.some
           new == IF create THEN MetadataNode_new(s.v, FALSE, TARGET)
                            ELSE Ok(EmptyTable)
           inserted ==
               IF create
               THEN [n \in DOMAIN rm_nodes \cup {name} |->
                        IF n = name THEN MetadataNode(new.t) ELSE rm_nodes[n]]
               ELSE rm_nodes
           node == name \in DOMAIN inserted
           next_parent == IF node THEN name ELSE parent
       IN  /\ name \notin rm_visited
           /\ rm_visited' = rm_visited \cup {name}
           /\ IF ~IsOk(new)
              THEN /\ rm_result' = Err(new.err)
                   /\ rm_pc' = "done"
                   /\ rm_packages' = Tail(rm_packages)
                   /\ UNCHANGED rm_nodes
              ELSE /\ rm_nodes' = IF node
                                  THEN add_parent(inserted, name, parent)
                                  ELSE inserted
                   /\ rm_packages' =
                          Tail(rm_packages) \o
                          dependencies(rm_data, rm_data.dependencies[name],
                                       next_parent)
                   /\ UNCHANGED <<rm_pc, rm_result>>
    /\ UNCHANGED <<rm_log, rm_merge, rm_data, rm_res, rm_curr, rm_queue, mergeVars, reduceVars,
                   pathVars>>

\* parse.rs:163-179: the nodes without children leave the map for the queue,
\* in the order the hash map yields them
Leaves ==
    /\ rm_pc = "traverse"
    /\ rm_packages = <<>>
    /\ LET leaves == {n \in DOMAIN rm_nodes : rm_nodes[n].children = 0} IN
       \E order \in [1..Cardinality(leaves) -> leaves] :
           /\ \A i, j \in DOMAIN order : order[i] = order[j] => i = j
           /\ rm_queue' = [i \in DOMAIN order |-> rm_nodes[order[i]]]
           /\ rm_nodes' = [n \in (DOMAIN rm_nodes) \ leaves |-> rm_nodes[n]]
    /\ rm_res' = EmptyTable
    /\ rm_curr' = EmptyTable
    /\ rm_pc' = "aggregate"
    /\ rm_log' = [graph |-> rm_nodes, flushed |-> <<>>, steps |-> 0]
    /\ UNCHANGED <<rm_merge, rm_data, rm_packages, rm_visited, rm_result, mergeVars,
                   reduceVars,
                   pathVars>>

\* parse.rs:181-201: the node at the front of the queue is merged into the
\* accumulator of its path and, at a node without parents, the accumulator
\* into the result
Aggregate ==
    /\ rm_pc = "aggregate"
    /\ rm_queue # <<>>
    /\ LET node == Head(rm_queue)
           pushed == push_parents(rm_nodes, Tail(rm_queue),
                                  descending(node.parents))
           path == merge_path(rm_curr, node.table)
           whole == merge_result(rm_res, path.t)
           error == IF pushed.err # "" THEN pushed.err
                    ELSE IF ~IsOk(path) THEN path.err
                    ELSE IF node.parents = {} /\ ~IsOk(whole) THEN whole.err
                    ELSE ""
       IN  IF error # ""
           THEN /\ rm_result' = Err(error)
                /\ rm_pc' = "done"
                /\ UNCHANGED <<rm_nodes, rm_queue, rm_res, rm_curr, rm_log>>
           ELSE /\ rm_nodes' = pushed.nodes
                /\ rm_queue' = pushed.queue
                /\ rm_res' = IF node.parents = {} THEN whole.t ELSE rm_res
                /\ rm_curr' = IF node.parents = {} THEN EmptyTable ELSE path.t
                /\ rm_log' = [rm_log EXCEPT
                       !.steps = @ + 1,
                       !.flushed = IF node.parents = {} THEN Append(@, path.t)
                                   ELSE @]
                /\ UNCHANGED <<rm_pc, rm_result>>
    /\ UNCHANGED <<rm_merge, rm_data, rm_packages, rm_visited, mergeVars, reduceVars,
                   pathVars>>

\* parse.rs:203: Ok(res)
Return ==
    /\ rm_pc = "aggregate"
    /\ rm_queue = <<>>
    /\ rm_result' = Ok(rm_res)
    /\ rm_pc' = "done"
    /\ UNCHANGED <<rm_log, rm_merge, rm_data, rm_packages, rm_nodes, rm_visited, rm_res,
                   rm_curr, rm_queue, mergeVars, reduceVars,
                   pathVars>>

NextMeta == Revisit \/ Visit \/ Leaves \/ Aggregate \/ Return

SpecMeta == InitMeta /\ [][NextMeta]_vars

(***************************************************************************)
(* Inputs of read_metadata with the kinds of dependencies: main is the     *)
(* root package and at most MaxDeclared dependencies are declared, each    *)
(* normal, optional and not enabled, dev or build; a section sets a key    *)
(* named after its package.  The packages cargo lists are the ones it      *)
(* resolves: those reached along enabled dependencies, dev dependencies    *)
(* being followed from the workspace members only.                         *)
(***************************************************************************)
MaxDeclared == 3

Kinds == {"Normal", "Optional", "Development", "Build"}
Declarations ==
    UNION {[d -> Kinds] : d \in {d \in SUBSET Edges :
                                    Cardinality(d) <= MaxDeclared}}

\* pkg.dependencies of p: an optional dependency is a normal one whose
\* feature is not enabled
DeclaredOf(D, p) ==
    LET In(n) == <<p, n>> \in DOMAIN D
        names == SelectSeq(NameOrder, In)
    IN  [i \in 1..Len(names) |->
            [name |-> names[i],
             kind |-> IF D[<<p, names[i]>>] = "Optional"
                      THEN "Normal" ELSE D[<<p, names[i]>>],
             optional |-> D[<<p, names[i]>>] = "Optional"]]

\* the dependencies cargo resolves from the members
ResolvedEdges(D, members) ==
    {e \in DOMAIN D :
        /\ D[e] # "Optional"
        /\ D[e] = "Development" => e[1] \in members}

Owns(p) == [k \in {p} |-> Table([value |-> String(p)])]

KindMetadatas ==
    { [root_package |-> Some("main"),
       workspace_packages |-> <<"main">>,
       packages |-> Reach(ResolvedEdges(D, {"main"}), {"main"}),
       dependencies |-> [p \in Packages |-> DeclaredOf(D, p)],
       metadata |-> [p \in Packages |->
                        IF p \in owners THEN Some(Owns(p)) ELSE None],
       workspace_metadata |-> None] :
      D \in Declarations, owners \in SUBSET Packages }

\* a package cargo does not list declares nothing and has no section
Listed(metadata) ==
    \A p \in Packages \ metadata.packages :
        /\ metadata.dependencies[p] = <<>>
        /\ ~metadata.metadata[p].some

InitKinds ==
    /\ IdleMerge
    /\ IdleReduce
    /\ IdlePaths
    /\ rm_data \in {metadata \in KindMetadatas : Listed(metadata)}
    /\ rm_pc = "traverse"
    /\ rm_packages = starting_points(rm_data)
    /\ rm_nodes = [n \in {""} |-> root_node(rm_data)]
    /\ rm_visited = {}
    /\ rm_res = EmptyTable
    /\ rm_curr = EmptyTable
    /\ rm_queue = <<>>
    /\ rm_result = NoResult
    /\ rm_merge = "merge_default"
    /\ rm_log = NoLog

SpecKinds == InitKinds /\ [][NextMeta]_vars

(***************************************************************************)
(* Paths::from_iter of binary.rs, step by step: the first loop checks each *)
(* entry with an url and spawns its refresh task, the tasks run            *)
(* make_available concurrently, the scope joins them, and the index is     *)
(* completed from the info documents and the aliases.                      *)
(***************************************************************************)
Task(pc, file) == [pc |-> pc, file |-> file]
\* a scope that takes every task for ended
Finished_always(task) == TRUE

\* binary.rs:150-171: thread::scope returns when the task has returned or
\* panicked
Finished(task) == task.pc \in {"done", "failed"}

\* the names of the entries of a kind, in the order of the table
names_of(binaries, kind) ==
    LET Is(n) == Binary(binaries[n]).kind = kind
    IN  SelectSeq(iter(binaries, FALSE), Is)

\* binary.rs:141-146: the entries that deserialise, split by kind
Partition ==
    /\ p_pc = "start"
    /\ p_pending' = names_of(p_binaries, "Url")
    /\ p_index' = NoPaths
    /\ p_pc' = IF names_of(p_binaries, "Url") = <<>> THEN "join" ELSE "loop"
    /\ UNCHANGED <<p_binaries, p_tasks, p_lock, p_fs, p_errors, p_runs, p_out,
                   p_key, p_got, p_last, mergeVars, reduceVars, metaVars>>

\* binary.rs:150-170: one turn of the loop over the entries with an url
CheckEntry ==
    /\ p_pc = "loop"
    /\ LET name == Head(p_pending)
           bin == Binary(p_binaries[name])
           valid == check_valid_dir(p_fs[name], bin.checksum)
       IN  /\ p_index' = [p_index EXCEPT
                             !.paths = put(@, name, entry_paths(name, bin))]
           /\ IF ~valid.ok
              THEN /\ p_errors' = p_errors \cup {valid.err}
                   /\ p_pc' = "join"
                   /\ UNCHANGED <<p_pending, p_tasks>>
              ELSE /\ p_tasks' = IF valid.b THEN p_tasks
                                 ELSE put(p_tasks, name, Task("start", None))
                   /\ p_pending' = Tail(p_pending)
                   /\ p_pc' = IF Tail(p_pending) = <<>> THEN "join" ELSE "loop"
                   /\ UNCHANGED p_errors
    /\ UNCHANGED <<p_binaries, p_lock, p_fs, p_runs, p_out, p_key, p_got,
                   p_last, mergeVars, reduceVars, metaVars>>

\* the task of name is at pc
At(name, pc) == name \in DOMAIN p_tasks /\ p_tasks[name].pc = pc
Url(name) == Binary(p_binaries[name]).url
Fail(name, e) ==
    /\ p_tasks' = [p_tasks EXCEPT ![name].pc = "failed"]
    /\ p_errors' = p_errors \cup {e}
Goto(name, pc) ==
    /\ p_tasks' = [p_tasks EXCEPT ![name].pc = pc]
    /\ UNCHANGED p_errors

\* binary.rs:265-277: the url is classified; a folder must be local
Classify(name) ==
    /\ At(name, "start")
    /\ LET src == source(Url(name))
           ext == Extension(src)
       IN  IF ~ext.ok THEN Fail(name, ext.err)
           ELSE IF ext.ext = "Folder"
                THEN IF ~src.local
                     THEN Fail(name, UnsupportedExtension("<folder>"))
                     ELSE Goto(name, "lock")
                ELSE Goto(name, "fetch")
    /\ UNCHANGED <<p_pc, p_binaries, p_pending, p_index, p_lock, p_fs, p_runs,
                   p_out, p_key, p_got, p_last, mergeVars, reduceVars, metaVars>>

\* a section that is entered without LOCK
Lock_unguarded(name) ==
    /\ At(name, "lock")
    /\ p_lock' = name
    /\ Goto(name, "link")
    /\ UNCHANGED <<p_pc, p_binaries, p_pending, p_index, p_fs, p_runs, p_out,
                   p_key, p_got, p_last, mergeVars, reduceVars, metaVars>>

\* binary.rs:278: LOCK is taken
Lock(name) ==
    /\ At(name, "lock")
    /\ p_lock = ""
    /\ p_lock' = name
    /\ Goto(name, "link")
    /\ UNCHANGED <<p_pc, p_binaries, p_pending, p_index, p_fs, p_runs, p_out,
                   p_key, p_got, p_last, mergeVars, reduceVars, metaVars>>

\* binary.rs:279-288: a destination that is not yet a link to the folder
\* loses its stale link and is linked; the return releases LOCK
Link(name) ==
    /\ At(name, "link")
    /\ LET path == strip_file(Url(name))
           dst == p_fs[name]
       IN  IF dst.kind = "link" /\ dst.link = path
           THEN Goto(name, "done") /\ UNCHANGED p_fs
           ELSE IF dst.kind \in {"link", "absent"}
                THEN /\ p_fs' = [p_fs EXCEPT
                            ![name] = LinkTo(path, source(Url(name)).info)]
                     /\ Goto(name, "done")
                ELSE Fail(name, SymlinkError) /\ UNCHANGED p_fs
    /\ p_lock' = ""
    /\ UNCHANGED <<p_pc, p_binaries, p_pending, p_index, p_runs, p_out, p_key,
                   p_got, p_last, mergeVars, reduceVars, metaVars>>

\* binary.rs:291-308: the archive is read or downloaded and its digest
\* compared with the declared checksum
Fetch(name) ==
    /\ At(name, "fetch")
    /\ LET src == source(Url(name))
           bin == Binary(p_binaries[name])
       IN  IF ~src.bytes.some
           THEN Fail(name, IF src.local THEN LocalFileError ELSE DownloadError)
           ELSE LET v == verify_checksum(strip_file(bin.url), bin.checksum,
                                         src.bytes.v)
                IN  IF ~v.ok THEN Fail(name, v.err)
                    ELSE /\ p_tasks' = [p_tasks EXCEPT
                                ![name] = Task("mkdir", Some(v.checksum))]
                         /\ UNCHANGED p_errors
    /\ UNCHANGED <<p_pc, p_binaries, p_pending, p_index, p_lock, p_fs, p_runs,
                   p_out, p_key, p_got, p_last, mergeVars, reduceVars, metaVars>>

\* binary.rs:309: fs::create_dir_all(dst)
Mkdir(name) ==
    /\ At(name, "mkdir")
    /\ IF p_fs[name].kind = "file"
       THEN Fail(name, DecompressError) /\ UNCHANGED p_fs
       ELSE /\ p_fs' = IF p_fs[name].kind = "absent"
                       THEN [p_fs EXCEPT ![name] = Directory(None, None, None)]
                       ELSE p_fs
            /\ Goto(name, "marker")
    /\ UNCHANGED <<p_pc, p_binaries, p_pending, p_index, p_lock, p_runs,
                   p_out, p_key, p_got, p_last, mergeVars, reduceVars, metaVars>>

\* binary.rs:310: the checksum is written to the marker file
Marker(name) ==
    /\ At(name, "marker")
    /\ p_fs' = [p_fs EXCEPT ![name].marker = p_tasks[name].file]
    /\ Goto(name, "decompress")
    /\ UNCHANGED <<p_pc, p_binaries, p_pending, p_index, p_lock, p_runs,
                   p_out, p_key, p_got, p_last, mergeVars, reduceVars, metaVars>>

\* binary.rs:313: the archive is unpacked into the destination
Decompress(name) ==
    /\ At(name, "decompress")
    /\ LET src == source(Url(name)) IN
       IF src.unpacks
       THEN /\ p_fs' = [p_fs EXCEPT ![name].payload = src.bytes,
                                    ![name].info = src.info]
            /\ Goto(name, "done")
       ELSE /\ p_fs' = [p_fs EXCEPT ![name].payload = Some("partial")]
            /\ Fail(name, DecompressError)
    /\ UNCHANGED <<p_pc, p_binaries, p_pending, p_index, p_lock, p_runs,
                   p_out, p_key, p_got, p_last, mergeVars, reduceVars, metaVars>>

\* binary.rs:148-171: the scope ends when every task has ended; a panic of
\* a task or of the loop is raised again
Join ==
    /\ p_pc = "join"
    /\ \A n \in DOMAIN p_tasks : Finished(p_tasks[n])
    /\ IF p_errors # {}
       THEN /\ p_out' = [err |-> p_errors, index |-> NoPaths]
            /\ p_pc' = "done"
       ELSE /\ p_pc' = "info"
            /\ UNCHANGED p_out
    /\ UNCHANGED <<p_binaries, p_pending, p_index, p_tasks, p_lock, p_fs,
                   p_errors, p_runs, p_key, p_got, p_last, mergeVars, reduceVars,
                   metaVars>>

\* binary.rs:180-187: the paths of an info document that the list lacks
RECURSIVE extend(_, _, _)
extend(list, dst, paths) ==
    IF paths = <<>> THEN list
    ELSE LET q == join(dst, Head(paths)) IN
         extend(IF contains(list, q) THEN list ELSE Append(list, q),
                dst, Tail(paths))

\* binary.rs:173-189: the info document of each destination, if it reads
Info ==
    /\ p_pc = "info"
    /\ p_index' = [p_index EXCEPT !.paths =
           [n \in DOMAIN p_index.paths |->
               IF p_fs[n].kind \in {"dir", "link"} /\ p_fs[n].info.some
               THEN extend(p_index.paths[n], destination(n), p_fs[n].info.v)
               ELSE p_index.paths[n]]]
    /\ p_pc' = "follows"
    /\ UNCHANGED <<p_binaries, p_pending, p_tasks, p_lock, p_fs, p_errors,
                   p_runs, p_out, p_key, p_got, p_last, mergeVars, reduceVars,
                   metaVars>>

\* binary.rs:191-206: the aliases are registered and the index returned
Follows ==
    /\ p_pc = "follows"
    /\ LET r == follow_binaries(p_index, p_binaries,
                                names_of(p_binaries, "Follow"))
       IN  IF ~r.ok
           THEN /\ p_out' = [err |-> {r.err}, index |-> NoPaths]
                /\ p_pc' = "done"
                /\ UNCHANGED p_index
           ELSE /\ p_out' = [err |-> {}, index |-> r.paths]
                /\ p_index' = r.paths
                /\ p_pc' = "built"
    /\ UNCHANGED <<p_binaries, p_pending, p_tasks, p_lock, p_fs, p_errors,
                   p_runs, p_key, p_got, p_last, mergeVars, reduceVars, metaVars>>

\* the names a library can be looked up by
LookupNames == {"a", "dep", "dep2", "other"}

\* Paths::get on the index returned
Get ==
    /\ p_pc = "built"
    /\ \E key \in LookupNames :
           /\ p_key' = key
           /\ p_got' \in get(p_out.index, key)
    /\ p_pc' = "got"
    /\ UNCHANGED <<p_binaries, p_pending, p_index, p_tasks, p_lock, p_fs,
                   p_errors, p_runs, p_out, p_last, mergeVars, reduceVars, metaVars>>

(***************************************************************************)
(* Inputs of Paths::from_iter alone: an aggregated document with an entry  *)
(* a of any url, with or without a checksum, and an entry dep that is a    *)
(* folder (with the path lib, with no paths or with two), an archive or an *)
(* alias of a; the destination of a is absent, a                           *)
(* plain file, an empty directory or, for a folder, a link to the folder   *)
(* an earlier url named.  At most MaxRuns resolutions follow one another   *)
(* on the same directories, the later ones with the same document or with  *)
(* another checksum for a.                                                 *)
(***************************************************************************)
MaxRuns == 2

Urls ==
    { "file:///src/a", "/src/a", "file:///src/a.tar.gz",
      "file:///src/bad.tar.xz", "file:///src/missing.tgz",
      "http://host/a.zip", "http://host/missing.zip",
      "http://unsuported.ext", "http://no_ext" }
Checksums == {None, Some("d1"), Some("d2"), Some("d3"), Some("1234")}

\* an entry with an url, the path lib and, if any, a checksum
Direct(url, checksum) ==
    IF checksum.some
    THEN Table([url |-> String(url), checksum |-> String(checksum.v),
                paths |-> Array(<<String("lib")>>)])
    ELSE Table([url |-> String(url), paths |-> Array(<<String("lib")>>)])

EntriesOfA == {Direct(u, c) : u \in Urls, c \in Checksums}
EntriesOfDep ==
    { Direct("file:///src/dep", None), Direct("http://host/a.zip", Some("d3")),
      Table([follows |-> String("a")]),
      Table([url |-> String("file:///src/dep")]),
      Table([url |-> String("file:///src/dep"),
             paths |-> Array(<<String("extra"), String("lib")>>)]) }
FetchDocuments ==
    {[a |-> ea] : ea \in EntriesOfA}
        \cup {[a |-> ea, dep |-> ed] : ea \in EntriesOfA, ed \in EntriesOfDep}

InitFetch ==
    /\ IdleMerge
    /\ IdleReduce
    /\ IdleMeta
    /\ p_pc = "start"
    /\ p_binaries \in FetchDocuments
    /\ p_pending = <<>>
    /\ p_index = NoPaths
    /\ p_tasks = <<>>
    /\ p_lock = ""
    /\ p_fs \in {[[n \in Destinations |-> Absent] EXCEPT !["a"] = d] :
                    d \in {Absent, PlainFile, Directory(None, None, None)}
                           \cup IF source(Url("a")).is_dir
                                THEN {LinkTo("/src/old", None)} ELSE {}}
    /\ p_errors = {}
    /\ p_runs = 1
    /\ p_out = NoOutput
    /\ p_key = ""
    /\ p_got = None
    /\ p_last = [binaries |-> EmptyTable, out |-> NoOutput]

\* the build runs again on the directories the last run left, with the
\* same document or with another checksum declared for a
Rerun ==
    /\ p_pc \in {"done", "built", "got"}
    /\ p_runs < MaxRuns
    /\ p_runs' = p_runs + 1
    /\ \E c \in Checksums :
           p_binaries' =
               [p_binaries EXCEPT
                   !["a"] = Direct(Binary(p_binaries["a"]).url, c)]
    /\ p_pc' = "start"
    /\ p_pending' = <<>>
    /\ p_index' = NoPaths
    /\ p_tasks' = <<>>
    /\ p_lock' = ""
    /\ p_errors' = {}
    /\ p_out' = NoOutput
    /\ p_key' = ""
    /\ p_got' = None
    /\ p_last' = [binaries |-> p_binaries, out |-> p_out]
    /\ UNCHANGED <<p_fs, mergeVars, reduceVars, metaVars>>

Refresh ==
    \E name \in Destinations :
        \/ Classify(name)
        \/ Lock(name)
        \/ Link(name)
        \/ Fetch(name)
        \/ Mkdir(name)
        \/ Marker(name)
        \/ Decompress(name)

NextFetch ==
    Partition \/ CheckEntry \/ Refresh \/ Join \/ Info \/ Follows \/ Get
        \/ Rerun

SpecFetch == InitFetch /\ [][NextFetch]_vars

(***************************************************************************)
(* Inputs of a whole resolution, as Test::new of test_binary.rs and build  *)
(* of build.rs run it: read_metadata with merge_binary over the chain      *)
(* main -> a -> dep or the diamond main -> {a, b} -> dep, then             *)
(* Paths::from_iter over the table it returns.  The sections declare the   *)
(* entries a, dep, dep2 and dep* with urls that name local folders, so     *)
(* that a refresh is a link.                                               *)
(***************************************************************************)
Folder(url) ==
    Table([url |-> String(url), paths |-> Array(<<String("lib")>>)])
Providing(url, name) ==
    Table([url |-> String(url), paths |-> Array(<<String("lib")>>),
           provides |-> Array(<<String(name)>>)])
Following(target) == Table([follows |-> String(target)])
Named(name) == Table([name |-> String(name)])

BinarySections ==
    { None,
      Some([a |-> Providing("file:///src/a", "dep")]),
      Some([a |-> Providing("file:///src/a", "dep*")]),
      Some([a |-> Folder("file:///src/a"), dep |-> Following("a")]),
      Some(put([a |-> Folder("file:///src/a")], "dep*", Following("a"))),
      Some([dep |-> Folder("file:///src/dep")]),
      Some([dep2 |-> Folder("file:///src/dep")]),
      Some([dep2 |-> Providing("file:///src/dep", "dep*")]),
      Some([dep |-> Named("dep")]),
      Some([dep |-> Following("dep2")]),
      Some([dep2 |-> Following("a")]),
      Some(put(EmptyTable, "dep*", Following("dep2"))) }
LeafSections ==
    { None,
      Some([dep |-> Folder("file:///src/dep")]),
      Some([dep2 |-> Providing("file:///src/dep", "dep*")]),
      Some([dep |-> Named("dep")]),
      Some([dep |-> Following("dep2")]) }
BranchSections ==
    { None,
      Some([dep |-> Folder("file:///src/dep")]),
      Some([a |-> Folder("file:///src/a"), dep |-> Following("a")]) }

ChainGraph == { <<"main", "a">>, <<"a", "dep">> }
DiamondGraph ==
    { <<"main", "a">>, <<"main", "b">>, <<"a", "dep">>, <<"b", "dep">> }

BinaryMetadatas ==
    { [root_package |-> Some("main"),
       workspace_packages |-> <<"main">>,
       packages |-> Packages,
       dependencies |-> [p \in Packages |-> DependenciesOf(E, p)],
       metadata |-> [main |-> top, a |-> mid, b |-> side, dep |-> leaf],
       workspace_metadata |-> None] :
      E \in {ChainGraph, DiamondGraph}, top \in BinarySections,
      mid \in BinarySections, side \in BranchSections,
      leaf \in LeafSections }

InitBinary ==
    /\ IdleMerge
    /\ IdleReduce
    /\ IdlePaths
    /\ rm_data \in {metadata \in BinaryMetadatas : Canonical(metadata)}
    /\ rm_pc = "traverse"
    /\ rm_packages = starting_points(rm_data)
    /\ rm_nodes = [n \in {""} |-> root_node(rm_data)]
    /\ rm_visited = {}
    /\ rm_res = EmptyTable
    /\ rm_curr = EmptyTable
    /\ rm_queue = <<>>
    /\ rm_result = NoResult
    /\ rm_merge = "merge_binary"
    /\ rm_log = NoLog

\* test_binary.rs:36-37: an error of read_metadata is returned; the table
\* it returns is collected into Paths
Collect ==
    /\ rm_pc = "done"
    /\ p_pc = "idle"
    /\ IF IsOk(rm_result)
       THEN /\ p_binaries' = rm_result.t
            /\ p_pc' = "start"
            /\ UNCHANGED p_out
       ELSE /\ p_out' = [err |-> {<<rm_result.err>>}, index |-> NoPaths]
            /\ p_pc' = "done"
            /\ UNCHANGED p_binaries
    /\ p_runs' = 1
    /\ UNCHANGED <<p_pending, p_index, p_tasks, p_lock, p_fs, p_errors, p_key,
                   p_got, p_last, mergeVars, reduceVars, metaVars>>

\* the refresh of an entry whose url names a folder
RefreshFolder ==
    \E name \in Destinations : Classify(name) \/ Lock(name) \/ Link(name)

NextBinary ==
    Revisit \/ Visit \/ Leaves \/ Aggregate \/ Return \/ Collect
        \/ Partition \/ CheckEntry \/ RefreshFolder \/ Join \/ Info
        \/ Follows \/ Get

SpecBinary == InitBinary /\ [][NextBinary]_vars

(***************************************************************************)
(* Properties of the merge engine.                                         *)
(***************************************************************************)
IsTable(v) == discriminant(v) = "Table"
IsArray(v) == discriminant(v) = "Array"
IsSimple(v) == ~IsTable(v) /\ ~IsArray(v)

\* C3: merge is idempotent under overwrite=true: whenever merge(A, B, true)
\* succeeds, merging B again into the result succeeds and changes nothing.
C3_MergeIdempotent ==
    (m_pc = "again" /\ m_overwrite) => (IsOk(m_again) /\ m_again.t = m_res.t)

\* an array of B with a duplicate element was merged twice into a table that
\* the first merge changed
C3_Witness ==
    /\ m_pc = "again" /\ m_overwrite
    /\ m_res.t # m_rhs
    /\ "k1" \in DOMAIN m_rhs /\ "k1" \in DOMAIN m_lhs
    /\ IsArray(m_rhs["k1"]) /\ m_lhs["k1"] = Array(<<String("b"), String("b")>>)
    /\ "k2" \in DOMAIN m_lhs /\ IsTable(m_lhs["k2"])

\* some key holds values of different kinds in a and b, directly or below
\* keys that hold (different) tables on both sides
RECURSIVE KindClash(_, _)
KindClash(a, b) ==
    \E k \in (DOMAIN a) \cap (DOMAIN b) :
        \/ discriminant(a[k]) # discriminant(b[k])
        \/ /\ IsTable(a[k]) /\ IsTable(b[k])
           /\ KindClash(payload(a[k]), payload(b[k]))

\* C4: values of different kinds under the same key, at any depth reached
\* through tables, make merge fail with IncompatibleMerge whether overwrite
\* is true or false.
C4_KindClashFails ==
    (m_pc # "start" /\ KindClash(m_rhs, m_lhs)) => m_res.err = IncompatibleMerge

\* an array meets a table two tables deep, with overwrite set
C4_Witness ==
    /\ m_pc = "merged" /\ m_overwrite
    /\ m_rhs = [k1 |-> Table([x |-> Table([y |-> String("a")])])]
    /\ m_lhs = [k1 |-> Table([x |-> Array(<<String("a")>>)])]
    /\ m_res.err = IncompatibleMerge

\* the elements of a in order, each kept at its first occurrence only
RECURSIVE FirstOccurrences(_)
FirstOccurrences(a) ==
    IF a = <<>> THEN <<>>
    ELSE LET init == SubSeq(a, 1, Len(a) - 1)
             last == a[Len(a)]
         IN  IF contains(init, last) THEN FirstOccurrences(init)
             ELSE Append(FirstOccurrences(init), last)

\* base's array followed by the incoming elements not already present
ExpectedArray(b, i) ==
    LET IsNew(e) == ~contains(b, e) IN b \o FirstOccurrences(SelectSeq(i, IsNew))

\* the merge of base and incoming has a conflict: under the same key, values
\* of different kinds, or different simple values while overwrite is unset
RECURSIVE Conflict(_, _, _)
Conflict(base, incoming, ow) ==
    \E k \in (DOMAIN base) \cap (DOMAIN incoming) :
        /\ base[k] # incoming[k]
        /\ \/ discriminant(base[k]) # discriminant(incoming[k])
           \/ IsSimple(base[k]) /\ ~ow
           \/ /\ IsTable(base[k]) /\ IsTable(incoming[k])
              /\ Conflict(payload(base[k]), payload(incoming[k]), ow)

\* the result the rules give key by key, for a merge without conflict
RECURSIVE Expected(_, _)
Expected(base, incoming) ==
    [k \in (DOMAIN base) \cup (DOMAIN incoming) |->
        IF k \notin DOMAIN incoming THEN base[k]
        ELSE IF k \notin DOMAIN base THEN incoming[k]
        ELSE IF base[k] = incoming[k] THEN base[k]
        ELSE IF IsArray(base[k])
             THEN Array(ExpectedArray(payload(base[k]), payload(incoming[k])))
        ELSE IF IsTable(base[k])
             THEN Table(Expected(payload(base[k]), payload(incoming[k])))
        ELSE incoming[k]]

\* C5: merge fails exactly on a conflict (different kinds, or different simple
\* values without overwrite) and otherwise yields, per key: base's value for
\* keys absent from incoming, incoming's value for keys absent from base,
\* the untouched value when equal, base's array followed by the new incoming
\* elements, the recursive merge of two tables, incoming's simple value.
C5_MergeResult ==
    m_pc # "start" =>
        IF Conflict(m_rhs, m_lhs, m_overwrite)
        THEN m_res.err = IncompatibleMerge
        ELSE IsOk(m_res) /\ m_res.t = Expected(m_rhs, m_lhs)

\* without overwrite: a duplicated new element was appended once to base's
\* array, an equal value left alone; with the flag flipped the same kind of
\* merge is reached for simple values (C5_WitnessSimple)
C5_Witness ==
    /\ m_pc = "merged" /\ ~m_overwrite
    /\ m_rhs = [k1 |-> Array(<<String("a")>>), k2 |-> String("a")]
    /\ m_lhs = [k1 |-> Array(<<String("b"), String("b")>>), k2 |-> String("a")]
    /\ m_res = Ok([k1 |-> Array(<<String("a"), String("b")>>), k2 |-> String("a")])

(***************************************************************************)
(* Properties of the conditional reducers.                                 *)
(***************************************************************************)
\* a key of the form cfg(<predicate>), and its predicate
IsPredicateKey(key) ==
    strip_prefix(key).some /\ strip_suffix(strip_prefix(key).v).some
Predicate(key) == strip_suffix(strip_prefix(key).v).v

\* what the predicate of a key evaluates to against the target
Truth(key) ==
    LET expr == parse(Predicate(key)) IN
    IF ~expr.some THEN "invalid"
    ELSE LET res == eval(expr.v, TARGET) IN
         IF ~res.some THEN "unsupported" ELSE IF res.v THEN "true" ELSE "false"

IsTrue(key) == IsPredicateKey(key) /\ Truth(key) = "true"
IsFalse(key) == IsPredicateKey(key) /\ Truth(key) = "false"

\* every key of the document but key is an unconditioned key or a predicate
\* that evaluates false
OthersQuiet(key) ==
    \A k \in (DOMAIN r_table) \ {key} : ~strip_prefix(k).some \/ IsFalse(k)

\* the value of a predicate key is a table of tables
GuardsTables(key) ==
    /\ IsTable(r_table[key])
    /\ \A t \in DOMAIN payload(r_table[key]) : IsTable(payload(r_table[key])[t])

\* the document without key reduces without error, by either reducer
RestReduces(key) ==
    /\ IsOk(reduce(remove(r_table, key), r_rev, TARGET))
    /\ IsOk(MetadataNode_new(remove(r_table, key), r_rev, TARGET))

\* C7, first half: a predicate key that evaluates false contributes nothing:
\* the reduced document is the reduction of the document without the key.
FalseContributesNothing ==
    \A key \in DOMAIN r_table :
        IsFalse(key) =>
            /\ r_reduced = reduce(remove(r_table, key), r_rev, TARGET)
            /\ r_node = MetadataNode_new(remove(r_table, key), r_rev, TARGET)

\* the unconditioned configuration of target t (none: the empty table)
Unconditioned(t) ==
    IF t \in DOMAIN r_table /\ IsTable(r_table[t]) THEN payload(r_table[t])
    ELSE EmptyTable

\* C7 as claimed: the only true predicate key of a document overrides the
\* unconditioned value of every key it sets (the reduced document holds the
\* predicate's value there) and leaves the other unconditioned keys of the
\* target in place; a false predicate contributes nothing.
C7_TrueOverrides ==
    r_pc = "done" =>
        /\ FalseContributesNothing
        /\ \A key \in DOMAIN r_table :
               (IsTrue(key) /\ GuardsTables(key) /\ OthersQuiet(key)) =>
                   \A res \in {r_reduced, r_node} :
                       /\ IsOk(res)
                       /\ \A t \in DOMAIN payload(r_table[key]) :
                              LET set == payload(payload(r_table[key])[t])
                                  old == Unconditioned(t)
                                  new == payload(res.t[t])
                              IN  /\ \A k \in DOMAIN set : new[k] = set[k]
                                  /\ \A k \in (DOMAIN old) \ (DOMAIN set) :
                                         new[k] = old[k]

\* C7 amended: the only true predicate key of a document is merged with
\* overwrite into the unconditioned document: a simple value it sets
\* replaces the unconditioned simple value of the same kind, an array it sets
\* extends the unconditioned array, a value of another kind than the
\* unconditioned one is an IncompatibleMerge; the other unconditioned keys
\* stay in place; a false predicate contributes nothing.
C7_TrueMergesOver ==
    r_pc = "done" =>
        /\ FalseContributesNothing
        /\ \A key \in DOMAIN r_table :
               (IsTrue(key) /\ GuardsTables(key) /\ OthersQuiet(key)) =>
                   \A res \in {r_reduced, r_node} :
                       IF \E t \in DOMAIN payload(r_table[key]) :
                              KindClash(Unconditioned(t),
                                        payload(payload(r_table[key])[t]))
                       THEN res.err = IncompatibleMerge
                       ELSE /\ IsOk(res)
                            /\ \A t \in DOMAIN payload(r_table[key]) :
                                   res.t[t] =
                                     Table(Expected(Unconditioned(t),
                                              payload(payload(r_table[key])[t])))

\* cfg(all()) replaced value = "default" by "final" and kept other = 32,
\* beside a false predicate that was dropped
C7_Witness ==
    /\ r_pc = "done"
    /\ DOMAIN r_table = {"cfg(all())", "cfg(any())", "dep"}
    /\ r_table["dep"] = Table([value |-> String("default"), other |-> Integer(32)])
    /\ r_table["cfg(all())"] = Table([dep |-> Table([value |-> String("final")])])
    /\ r_table["cfg(any())"] = Table([dep |-> Table([value |-> String("linux")])])
    /\ r_node = Ok([dep |-> Table([value |-> String("final"),
                                   other |-> Integer(32)])])
    /\ r_reduced = r_node

\* two different true predicate keys give different simple values to the
\* same key of the same target
Conflicting(k1, k2) ==
    /\ k1 # k2 /\ IsTrue(k1) /\ IsTrue(k2)
    /\ GuardsTables(k1) /\ GuardsTables(k2)
    /\ \E t \in (DOMAIN payload(r_table[k1])) \cap (DOMAIN payload(r_table[k2])) :
           LET c1 == payload(payload(r_table[k1])[t])
               c2 == payload(payload(r_table[k2])[t])
           IN  \E k \in (DOMAIN c1) \cap (DOMAIN c2) :
                   IsSimple(c1[k]) /\ IsSimple(c2[k]) /\ c1[k] # c2[k]

\* C8: two different true predicate keys that give different simple values
\* to the same key of the same target make the reduction fail, in either
\* order of processing: never a document, and IncompatibleMerge whenever the
\* document reduces without error once either of the two keys is taken out.
C8_PredicatesConflict ==
    r_pc = "done" =>
        \A k1, k2 \in DOMAIN r_table :
            Conflicting(k1, k2) =>
                /\ ~IsOk(r_reduced) /\ ~IsOk(r_node)
                /\ (RestReduces(k1) /\ RestReduces(k2)) =>
                       /\ r_reduced.err = IncompatibleMerge
                       /\ r_node.err = IncompatibleMerge

\* on Linux, cfg(unix) and cfg(target_os = "linux") disagree on dep.value and
\* are taken in descending order of the keys
C8_Witness ==
    /\ r_pc = "done" /\ r_rev /\ TARGET = Linux
    /\ DOMAIN r_table = {"cfg(unix)", "cfg(target_os = \"linux\")", "dep"}
    /\ Conflicting("cfg(unix)", "cfg(target_os = \"linux\")")
    /\ r_reduced.err = IncompatibleMerge /\ r_node.err = IncompatibleMerge

\* the value of a true predicate key is no table, or a table with an entry
\* that is no table
NotObject(key) == IsTrue(key) /\ ~GuardsTables(key)

\* C9 as claimed: a true predicate key whose value is not a table, or is a
\* table with an entry that is not a table, makes the reducer that
\* read_metadata calls fail with CfgNotObject.
C9_NotObjectFails ==
    r_pc = "done" =>
        \A key \in DOMAIN r_table :
            (NotObject(key) /\ RestReduces(key)) => r_node.err = CfgNotObject

\* the predicate of the key is a condition on something else than the target
NotOnTarget(key) ==
    /\ IsPredicateKey(key)
    /\ parse(Predicate(key)).some
    /\ parse(Predicate(key)).v.op \notin {"all", "any", "target"}

Returned == rm_pc = "done"

\* the value a table of configurations gives to the key value of dep
SetsIn(t) ==
    /\ "dep" \in DOMAIN t
    /\ IsTable(t["dep"])
    /\ "value" \in DOMAIN payload(t["dep"])
ValueIn(t) == payload(t["dep"])["value"]

\* the package p is reached by the traversal and its section sets the key
Reached(p) == p \in Reach(DependencyEdges(rm_data), Members(rm_data))
SetsKey(p) ==
    /\ Reached(p)
    /\ rm_data.metadata[p].some
    /\ SetsIn(rm_data.metadata[p].v)
ValueOf(p) == ValueIn(rm_data.metadata[p].v)
Setters == {p \in Packages : SetsKey(p)}
WorkspaceSets ==
    /\ rm_data.workspace_metadata.some
    /\ SetsIn(rm_data.workspace_metadata.v)

\* d depends on p, directly or through other packages
DependsOn(d, p) == p # d /\ p \in Reach(DependencyEdges(rm_data), {d})
Independent(p, q) == p # q /\ ~DependsOn(p, q) /\ ~DependsOn(q, p)

\* every path from the starting packages to p goes through d
Bypasses(d) ==
    Reach({e \in DependencyEdges(rm_data) : e[1] # d /\ e[2] # d},
          Members(rm_data) \ {d})
OnEveryPathTo(d, p) == p \notin Bypasses(d)

ResultIs(v) ==
    /\ IsOk(rm_result)
    /\ SetsIn(rm_result.t)
    /\ ValueIn(rm_result.t) = v
Fails(e) == rm_result = Err(e)

\* the graph is a linear chain from the root package main
Chain ==
    /\ rm_data.root_package.some
    /\ \A p \in Packages : Len(rm_data.dependencies[p]) <= 1
    /\ \A p \in Packages :
           Cardinality({e \in DependencyEdges(rm_data) : e[2] = p}) <= 1

\* C1 as stated: a package d and a dependency p of d both set the key, no
\* dependent of d and no package unrelated to d sets it, nor the workspace:
\* the resolution returns the value of d.
C1_DependentOverrides ==
    Returned /\ ~WorkspaceSets =>
        \A d \in Setters :
            (/\ \E p \in Setters : DependsOn(d, p)
             /\ \A q \in Setters \ {d} : DependsOn(d, q))
            => ResultIs(ValueOf(d))

\* C1: when a package d and a dependency p of d both set the same key of the
\* same target and every dependency path from the starting packages to the
\* other packages that set the key goes through d, the resolution returns
\* the value of d; so it does on every linear chain, whatever its depth and
\* whichever intermediate packages have no section; and whenever the
\* resolution succeeds and d is the only package without a dependent that
\* sets the key, the value returned is the one of d.
C1_DependentOverridesOnItsPaths ==
    Returned /\ ~WorkspaceSets =>
        \A d \in Setters :
            (\E p \in Setters : DependsOn(d, p)) =>
                /\ (\A q \in Setters \ {d} : OnEveryPathTo(d, q))
                       => ResultIs(ValueOf(d))
                /\ (Chain /\ \A q \in Setters \ {d} : DependsOn(d, q))
                       => ResultIs(ValueOf(d))
                /\ (IsOk(rm_result) /\ \A q \in Setters \ {d} : DependsOn(d, q))
                       => ResultIs(ValueOf(d))

\* main overrides the value of dep through a package without a section
C1_Witness ==
    /\ Returned
    /\ ~WorkspaceSets
    /\ DependencyEdges(rm_data) = {<<"main", "a">>, <<"a", "dep">>}
    /\ ~rm_data.metadata["a"].some
    /\ Setters = {"main", "dep"}
    /\ ValueOf("dep") = String("original")
    /\ ValueOf("main") = String("final")
    /\ ResultIs(String("final"))

\* no dependent of p sets the key
Topmost(p) == \A q \in Setters : ~DependsOn(q, p)

\* C2 as stated: two packages without a dependency relationship that set
\* the key to different values make the resolution fail with
\* IncompatibleMerge, whatever else the graph holds.
C2_UnrelatedConflict ==
    Returned =>
        \A p, q \in Setters :
            Independent(p, q) /\ ValueOf(p) # ValueOf(q)
                => Fails(IncompatibleMerge)

\* C2: two packages without a dependency relationship that set the same key
\* to different values, neither overridden by a dependent of its own nor by
\* the workspace, make the resolution fail with IncompatibleMerge; when they
\* are the only ones to set the key and their values are equal, the
\* resolution returns that value; when one package alone sets the key, the
\* resolution returns its value.
C2_UnrelatedTopmostConflict ==
    Returned /\ ~WorkspaceSets =>
        /\ \A p, q \in Setters :
               (/\ Independent(p, q)
                /\ ValueOf(p) # ValueOf(q)
                /\ Topmost(p)
                /\ Topmost(q))
               => Fails(IncompatibleMerge)
        /\ \A p, q \in Setters :
               (/\ Independent(p, q)
                /\ ValueOf(p) = ValueOf(q)
                /\ Setters = {p, q})
               => ResultIs(ValueOf(p))
        /\ \A p \in Setters : Setters = {p} => ResultIs(ValueOf(p))

\* a and b, two dependencies of main, set different values
C2_Witness ==
    /\ Returned
    /\ ~WorkspaceSets
    /\ DependencyEdges(rm_data) = {<<"main", "a">>, <<"main", "b">>}
    /\ Setters = {"a", "b"}
    /\ ValueOf("a") # ValueOf("b")
    /\ Fails(IncompatibleMerge)

\* C6: the node of the workspace is the one node without parents, so it is
\* merged last, with overwrite, on every path; a value the workspace sets
\* for a key is the value returned, whatever the packages set, with a root
\* package and in a virtual workspace.
C6_WorkspaceOverrides ==
    /\ \A i \in DOMAIN rm_queue :
           IF rm_queue[i].parents = {}
           THEN rm_queue[i].table = root_node(rm_data).table
           ELSE rm_queue[i].parents \subseteq DOMAIN rm_nodes
    /\ Returned /\ WorkspaceSets
           => ResultIs(ValueIn(rm_data.workspace_metadata.v))

\* a virtual workspace whose members both set the key, to different values
C6_Witness ==
    /\ Returned
    /\ WorkspaceSets
    /\ ~rm_data.root_package.some
    /\ {"a", "b"} \subseteq Setters
    /\ ValueOf("a") # ValueOf("b")
    /\ ResultIs(String("workspace"))

(***************************************************************************)
(* Properties of the traversal of read_metadata.                           *)
(***************************************************************************)
\* the dependencies of a kind among the declared ones
DeclaredEdges(normal, enabled) ==
    {e \in Packages \X Packages :
        \E i \in 1..Len(rm_data.dependencies[e[1]]) :
            LET dep == rm_data.dependencies[e[1]][i] IN
            /\ dep.name = e[2]
            /\ (dep.kind = "Normal") = normal
            /\ normal => (~dep.optional) = enabled}

\* the packages reached from the starting packages along normal
\* dependencies that are enabled
NormallyReached == Reach(DeclaredEdges(TRUE, TRUE), Members(rm_data))

\* C11: a package reached only through dev or build dependencies, or
\* through an optional dependency that is not enabled, is never visited and
\* the key its section sets is absent from the result.
C11_OnlyNormalEdges ==
    \A p \in Packages \ NormallyReached :
        /\ p \notin rm_visited
        /\ Returned /\ IsOk(rm_result) => p \notin DOMAIN rm_result.t

\* C11, dev and build dependencies alone: where no optional dependency is
\* declared, a package reached only through dev or build dependencies is
\* never visited and its key is absent from the result.
C11_DevAndBuildIgnored ==
    DeclaredEdges(TRUE, FALSE) = {} => C11_OnlyNormalEdges

(***************************************************************************)
(* Properties of the cache of Paths::from_iter.                            *)
(***************************************************************************)
\* the first loop has reached the entry name in this resolution
Checked(name) == p_pc # "start" /\ name \in DOMAIN p_index.paths
Declared(name) == Binary(p_binaries[name]).checksum
IsFolder(name) == source(Url(name)).is_dir

\* the destination is a directory whose marker holds the declared checksum
ValidFor(dst, checksum) ==
    /\ dst.kind \in {"dir", "link"}
    /\ checksum.some
    /\ dst.marker.some
    /\ dst.marker.v = checksum.v

\* the resolution before this one returned an index, for the same entry a
\* up to its checksum
Succeeded == p_runs > 1 /\ p_last.out.err = {}
FetchSteps == {"fetch", "mkdir", "marker", "decompress"}

\* C17: an entry the first loop has reached has no refresh task exactly
\* when its destination is a directory whose marker file holds the declared
\* checksum; a destination that is a plain file is DirectoryIsFile and no
\* task; the destination of an entry without a task is never written; a
\* resolution that follows a successful one with the same checksum fetches
\* nothing, one that declares another checksum refreshes the entry.
C17_CacheValidity ==
    /\ [](\A n \in Destinations : Checked(n) =>
            /\ p_fs[n].kind = "file" =>
                   DirectoryIsFile \in p_errors /\ n \notin DOMAIN p_tasks
            /\ (n \notin DOMAIN p_tasks /\ p_fs[n].kind # "file")
                   => ValidFor(p_fs[n], Declared(n))
            /\ At(n, "start") => ~ValidFor(p_fs[n], Declared(n)))
    /\ [](Succeeded /\ Checked("a") /\ Declared("a").some =>
            IF Declared("a") = Binary(p_last.binaries["a"]).checksum
            THEN IF IsFolder("a")
                 THEN ~\E pc \in FetchSteps : At("a", pc)
                 ELSE "a" \notin DOMAIN p_tasks
            ELSE "a" \in DOMAIN p_tasks)
    /\ [][\A n \in Destinations :
            Checked(n) /\ n \notin DOMAIN p_tasks /\ p_runs' = p_runs
                => p_fs'[n] = p_fs[n] /\ n \notin DOMAIN p_tasks']_vars

\* the second resolution finds the archive of a unpacked with its checksum
\* and returns the index without a task
C17_Witness ==
    /\ Succeeded
    /\ p_pc = "built"
    /\ Url("a") = "file:///src/a.tar.gz"
    /\ Declared("a") = Some("d1")
    /\ Binary(p_last.binaries["a"]).checksum = Some("d1")
    /\ p_fs["a"].payload = Some("d1")
    /\ p_tasks = <<>>

(***************************************************************************)
(* Properties of make_available.                                           *)
(***************************************************************************)
\* the url of name is an archive of a supported extension
IsArchive(name) ==
    /\ Binary(p_binaries[name]).kind = "Url"
    /\ ~IsFolder(name)
    /\ Extension(source(Url(name))).ok
Fetches(name) == source(Url(name)).bytes.some
Unpacks(name) == source(Url(name)).unpacks

\* the resolution got past the scope of the tasks
PastScope == p_pc \in {"info", "follows", "built", "got"}

\* the steps of a task that write to its destination
WriteSteps == {"link", "mkdir", "marker", "decompress"}
OnlyTheTaskWrites(name) ==
    p_fs'[name] # p_fs[name] => \E pc \in WriteSteps : At(name, pc)

\* C18: an archive entry without a checksum is never taken for cached (its
\* task is spawned in every resolution) and its refresh succeeds whenever
\* the fetch and the decompression succeed.
C18_NoChecksumRefreshes ==
    \A n \in Destinations :
        Checked(n) /\ IsArchive(n) /\ ~Declared(n).some =>
            /\ p_fs[n].kind # "file" => n \in DOMAIN p_tasks
            /\ Fetches(n) /\ Unpacks(n) => ~At(n, "failed")

\* the declared checksum of the archive is not the digest of its bytes
Mismatch(name) ==
    /\ IsArchive(name)
    /\ Fetches(name)
    /\ Declared(name).some
    /\ Declared(name).v # source(Url(name)).bytes.v

\* C19: a refresh whose bytes do not have the declared checksum fails with
\* InvalidChecksum of the source, the declared and the computed digest, the
\* resolution returns no index, and the task never reaches a step that
\* writes: the destination stays as the task found it.
C19_ChecksumMismatch ==
    /\ [](\A n \in DOMAIN p_tasks : Mismatch(n) =>
            /\ p_tasks[n].pc \in {"start", "fetch", "failed"}
            /\ At(n, "failed") =>
                   InvalidChecksum(strip_file(Url(n)), Declared(n).v,
                                   source(Url(n)).bytes.v) \in p_errors
            /\ ~PastScope)
    /\ [](p_pc = "done" /\ p_errors # {} =>
              p_out.err = p_errors /\ p_out.index = NoPaths)
    /\ [][\A n \in Destinations : OnlyTheTaskWrites(n)]_vars

\* the zip archive declared with the checksum 1234 is refused and the
\* destination was not created
C19_Witness ==
    /\ p_pc = "done"
    /\ Url("a") = "http://host/a.zip"
    /\ Declared("a") = Some("1234")
    /\ p_errors = {InvalidChecksum("http://host/a.zip", "1234", "d3")}
    /\ p_fs["a"] = Absent
    /\ p_runs = 1

\* the source of name is no directory and its extension is no archive's
Unsupported(name) ==
    /\ Binary(p_binaries[name]).kind = "Url"
    /\ ~IsFolder(name)
    /\ LET ext == source(Url(name)).ext
       IN  ext.some => ext.v \notin {"gz", "tgz", "xz", "zip"}
ExtensionOf(name) ==
    IF source(Url(name)).ext.some THEN source(Url(name)).ext.v ELSE "<error>"
RemoteFolder(name) ==
    /\ Binary(p_binaries[name]).kind = "Url"
    /\ IsFolder(name)
    /\ ~source(Url(name)).local

\* C20: the refresh of an entry whose source is no directory and whose url
\* has an unsupported extension, or none, fails with UnsupportedExtension
\* at its first step, before a byte is fetched and before the destination
\* is written, and the resolution returns no index; so does the refresh of
\* a directory that the url names without file://.
C20_UnsupportedExtension ==
    /\ [](\A n \in DOMAIN p_tasks : Unsupported(n) \/ RemoteFolder(n) =>
            /\ p_tasks[n].pc \in {"start", "failed"}
            /\ At(n, "failed") =>
                   UnsupportedExtension(IF RemoteFolder(n) THEN "<folder>"
                                        ELSE ExtensionOf(n)) \in p_errors
            /\ ~PastScope)
    /\ [](\A n \in Destinations :
            Checked(n) /\ (Unsupported(n) \/ RemoteFolder(n))
                /\ p_fs[n].kind # "file" => n \in DOMAIN p_tasks)
    /\ [][\A n \in DOMAIN p_tasks :
            (Unsupported(n) \/ RemoteFolder(n)) /\ p_runs' = p_runs
                => p_fs'[n] = p_fs[n]]_vars

\* the url without an extension is refused while the folder of dep is
\* linked
C20_Witness ==
    /\ p_pc = "done"
    /\ Url("a") = "http://no_ext"
    /\ p_errors = {UnsupportedExtension("<error>")}
    /\ p_fs["a"] = Directory(None, None, None)
    /\ "dep" \in DOMAIN p_binaries
    /\ At("dep", "done")
    /\ p_fs["dep"].kind = "link"

(***************************************************************************)
(* Properties of the index of Paths and of the aliases.                    *)
(***************************************************************************)
\* the entries of the collected document, by kind
Entries(kind) ==
    {n \in DOMAIN p_binaries : Binary(p_binaries[n]).kind = kind}
Built == p_pc \in {"built", "got"}

\* the prefixes of the wildcard aliases of the index that key starts with
Prefixes(index, key) ==
    {k \in DOMAIN index.wildcards : starts_with(key, k)}

\* C12: a lookup returns the paths of the explicit entry of the name if
\* there is one, else the paths of the target of its exact alias, else the
\* paths of the target of a wildcard alias whose prefix the name starts
\* with, else nothing; the explicit entries of the index are the entries
\* with an url and every alias of the index has a target with paths.
C12_LookupPrecedence ==
    /\ Built =>
           /\ DOMAIN p_out.index.paths = Entries("Url")
           /\ \A n \in DOMAIN p_out.index.follows :
                  p_out.index.follows[n] \in Entries("Url")
           /\ \A k \in DOMAIN p_out.index.wildcards :
                  p_out.index.wildcards[k] \in Entries("Url")
    /\ p_pc = "got" =>
           LET index == p_out.index IN
           IF p_key \in DOMAIN index.paths
           THEN p_got = Some(index.paths[p_key])
           ELSE IF p_key \in DOMAIN index.follows
           THEN p_got = Some(index.paths[index.follows[p_key]])
           ELSE IF Prefixes(index, p_key) # {}
           THEN \E k \in Prefixes(index, p_key) :
                    p_got = Some(index.paths[index.wildcards[k]])
           ELSE p_got = None

\* dep is an exact alias of a while the wildcard dep* follows dep2: the
\* lookup of dep gives the paths of a
C12_Witness ==
    /\ p_pc = "got"
    /\ p_key = "dep"
    /\ "dep" \in DOMAIN p_out.index.follows
    /\ p_out.index.follows["dep"] = "a"
    /\ "dep" \in DOMAIN p_out.index.wildcards
    /\ p_out.index.wildcards["dep"] = "dep2"
    /\ p_got = Some(p_out.index.paths["a"])
    /\ p_out.index.paths["a"] # p_out.index.paths["dep2"]

\* the section of the package pkg
DeclaresIn(pkg, section) == rm_data.metadata[pkg] = Some(section)

\* the two ways of making name an alias of the entry a
ProvidesForm(name) == [a |-> Providing("file:///src/a", name)]
FollowsForm(name) ==
    put([a |-> Folder("file:///src/a")], name, Following("a"))

\* the chain main -> a -> dep where main declares nothing and dep
\* declares one of the sections of leaves
AliasContext(leaves) ==
    /\ rm_merge = "merge_binary"
    /\ DependencyEdges(rm_data) = ChainGraph
    /\ rm_data.metadata["main"] = None
    /\ rm_data.metadata["dep"] \in leaves

\* the resolution does not fail and the lookup of key gives the paths of
\* the entry a
ResolvesToA(key) ==
    /\ p_pc # "done"
    /\ p_pc = "got" /\ p_key = key => p_got = Some(p_out.index.paths["a"])

AliasedBy(form(_), leaves) ==
    /\ AliasContext(leaves) /\ DeclaresIn("a", form("dep"))
           => ResolvesToA("dep")
    /\ AliasContext(leaves) /\ DeclaresIn("a", form("dep*")) =>
           /\ ResolvesToA("dep2")
           /\ Built => p_out.index.wildcards = [dep |-> "a"]
                          /\ p_out.index.follows = <<>>

\* what the dependency declares for dep: nothing, a name or an url
AliasLeaves ==
    { None, Some([dep |-> Named("dep")]),
      Some([dep |-> Folder("file:///src/dep")]) }

\* C13: the package that declares the entry a makes dep an alias of a by
\* provides = ["dep"] on a or by an entry dep with follows = "a", with the
\* same outcome: the resolution succeeds and the lookup of dep gives the
\* paths of a, whether its dependency declares nothing, a name or an url
\* for dep; a name that ends with a star becomes a wildcard alias of its
\* prefix.
C13_ProvidesIsFollows ==
    /\ AliasedBy(ProvidesForm, AliasLeaves)
    /\ AliasedBy(FollowsForm, AliasLeaves)

\* the two forms have the same outcome where no dependency declares an url
\* for the alias
C13_ProvidesIsFollowsWithoutUrl ==
    /\ AliasedBy(ProvidesForm, {None, Some([dep |-> Named("dep")])})
    /\ AliasedBy(FollowsForm, {None, Some([dep |-> Named("dep")])})
    /\ AliasedBy(ProvidesForm, {Some([dep |-> Folder("file:///src/dep")])})

\* what the section of the package p declares for the name x
DeclaresKey(p, x, key) ==
    /\ rm_data.metadata[p].some
    /\ x \in DOMAIN rm_data.metadata[p].v
    /\ value_get(rm_data.metadata[p].v[x], key).some
DeclaresUrl(p, x) == DeclaresKey(p, x, "url")
ProvidesName(p, x) ==
    /\ rm_data.metadata[p].some
    /\ \E k \in DOMAIN rm_data.metadata[p].v :
           LET provides == value_get(rm_data.metadata[p].v[k], "provides")
           IN  provides.some /\ contains(payload(provides.v), String(x))
Mentions(p, x) ==
    DeclaresUrl(p, x) \/ DeclaresKey(p, x, "follows") \/ ProvidesName(p, x)

\* p depends on q along the chain main -> a -> dep; no dependent of p
\* declares anything for x; no package between p and q does
IsChain == rm_merge = "merge_binary" /\ DependencyEdges(rm_data) = ChainGraph
Above(p, q) == <<p, q>> \in {<<"main", "a">>, <<"main", "dep">>, <<"a", "dep">>}
Last(p, x) == \A r \in Packages : Above(r, p) => ~Mentions(r, x)
Next_to(p, q, x) ==
    /\ Above(p, q)
    /\ \A r \in Packages : Above(p, r) /\ Above(r, q) => ~Mentions(r, x)
Aggregated == rm_pc = "done"

\* every path of the list lies below the destination of name
Below(list, name) == \A i \in 1..Len(list) : list[i][1] = name

\* C14: along the chain, an url that a dependent declares for dep removes
\* the alias a dependency registered for dep with provides, and dep
\* resolves to paths below its own destination; a provides of a dependent
\* that names dep replaces the url a dependency declared for dep, and dep
\* resolves to the paths of the providing entry; and a name with an
\* explicit entry resolves to that entry whatever wildcard alias matches it.
C14_DependentReplaces ==
    /\ \A p, q \in Packages :
           /\ IsChain /\ Next_to(p, q, "dep") /\ Last(p, "dep")
           /\ DeclaresUrl(p, "dep") /\ ProvidesName(q, "dep")
           /\ Aggregated
           => /\ IsOk(rm_result)
              /\ Binary(rm_result.t["dep"]).kind = "Url"
              /\ Built => "dep" \notin DOMAIN p_out.index.follows
              /\ p_pc = "got" /\ p_key = "dep" =>
                     /\ p_got = Some(p_out.index.paths["dep"])
                     /\ Below(p_got.v, "dep")
    /\ \A p, q \in Packages :
           /\ IsChain /\ Next_to(p, q, "dep") /\ Last(p, "dep")
           /\ ProvidesName(p, "dep") /\ DeclaresUrl(q, "dep")
           /\ Aggregated
           => /\ IsOk(rm_result)
              /\ Binary(rm_result.t["dep"]) = [kind |-> "Follow", follows |-> "a"]
              /\ ~value_get(rm_result.t["dep"], "url").some
              /\ Built => "dep" \notin DOMAIN p_out.index.paths
              /\ p_pc = "got" /\ p_key = "dep" =>
                     /\ p_got = Some(p_out.index.paths["a"])
                     /\ Below(p_got.v, "a")
    /\ p_pc = "got" /\ p_key \in DOMAIN p_out.index.paths
           /\ Prefixes(p_out.index, p_key) # {}
           => /\ p_got = Some(p_out.index.paths[p_key])
              /\ Below(p_got.v, p_key)

\* main declares an url for dep that its dependency a provides: dep
\* resolves to its own destination
C14_Witness ==
    /\ IsChain
    /\ DeclaresUrl("main", "dep")
    /\ ProvidesName("a", "dep")
    /\ p_pc = "got"
    /\ p_key = "dep"
    /\ p_got = Some(p_out.index.paths["dep"])
    /\ Below(p_got.v, "dep")
    /\ "a" \in DOMAIN p_out.index.paths

\* the aliases of the collected document whose target has no url
Dangling ==
    {n \in Entries("Follow") :
        Binary(p_binaries[n]).follows \notin Entries("Url")}

\* C15: when the collected document has an alias, exact or wildcard, whose
\* target is no entry with an url, be it an alias itself or not declared
\* at all, no index is returned, and once the refreshes succeeded the
\* resolution ends with InvalidFollows of such an alias and its target; a
\* document without such an alias never ends that way.
C15_InvalidFollows ==
    /\ Dangling # {} => ~Built
    /\ Dangling # {} /\ p_pc = "done" /\ p_errors = {} =>
           \E n \in Dangling :
               p_out = [err |-> {InvalidFollows(n, Binary(p_binaries[n]).follows)},
                        index |-> NoPaths]
    /\ Dangling = {} /\ p_pc = "done" /\ p_errors = {} =>
           ~IsOk(rm_result) /\ p_out.err = {<<rm_result.err>>}

\* the wildcard dep* follows dep2, which no entry declares
C15_WildcardWitness ==
    /\ p_pc = "done"
    /\ "dep2" \notin DOMAIN p_binaries
    /\ p_out = [err |-> {InvalidFollows("dep*", "dep2")}, index |-> NoPaths]

\* dep follows dep2, which only follows a
C15_Witness ==
    /\ p_pc = "done"
    /\ "dep2" \in Entries("Follow")
    /\ "a" \in Entries("Url")
    /\ p_out = [err |-> {InvalidFollows("dep", "dep2")}, index |-> NoPaths]

(***************************************************************************)
(* Properties of merge_binary within read_metadata.                        *)
(***************************************************************************)
\* some entry of the table has an url and follows
HasBoth(t) ==
    \E k \in DOMAIN t :
        value_get(t[k], "url").some /\ value_get(t[k], "follows").some
HasKey(t, x, key) == x \in DOMAIN t /\ value_get(t[x], key).some

Merging == rm_merge = "merge_binary" /\ rm_pc = "aggregate" /\ rm_queue # <<>>

\* the table the next merge of the aggregation would leave has an entry
\* with an url and follows: the merge of the node into the accumulator of
\* the path, or the merge of that accumulator into the result
WouldLeaveBoth ==
    /\ Merging
    /\ LET node == Head(rm_queue)
           updated == update_loop(rm_curr, node.table, iter(node.table, FALSE))
           path == merge_default(updated.t, node.table, TRUE)
           whole == merge_default(rm_res, path.t, FALSE)
       IN  /\ IsOk(updated)
           /\ IsOk(path)
           /\ \/ HasBoth(path.t)
              \/ node.parents = {} /\ IsOk(whole) /\ HasBoth(whole.t)

\* the accumulator of the path that ends at the next node makes x an alias
\* while the result of the earlier paths has an url for x, or the reverse
BranchesDisagree(x) ==
    /\ Merging
    /\ Head(rm_queue).parents = {}
    /\ LET path == merge_path(rm_curr, Head(rm_queue).table) IN
       /\ IsOk(path)
       /\ \/ HasKey(rm_res, x, "follows") /\ HasKey(path.t, x, "url")
          \/ HasKey(rm_res, x, "url") /\ HasKey(path.t, x, "follows")

FailsIncompatible ==
    rm_pc' = "done" /\ rm_result' = Err(IncompatibleMerge)

\* C16: while read_metadata aggregates with merge_binary, no entry of the
\* accumulator of a path, of the result or of the table returned has both
\* an url and follows; a merge that would leave such an entry fails with
\* IncompatibleMerge; so does the merge of two branches of which one made
\* a name an alias and the other declared an url for it.
C16_NeverUrlAndFollows ==
    /\ [](rm_merge = "merge_binary" =>
              /\ ~HasBoth(rm_curr)
              /\ ~HasBoth(rm_res)
              /\ IsOk(rm_result) => ~HasBoth(rm_result.t))
    /\ [][WouldLeaveBoth => FailsIncompatible]_vars
    /\ [][\A x \in Destinations : BranchesDisagree(x) => FailsIncompatible]_vars

\* the branch a provides dep and the branch b declares an url for dep:
\* the result of the first path has the alias and read_metadata failed
C16_Witness ==
    /\ rm_merge = "merge_binary"
    /\ DependencyEdges(rm_data) = DiamondGraph
    /\ ProvidesName("a", "dep")
    /\ DeclaresUrl("b", "dep")
    /\ ~Mentions("main", "dep")
    /\ rm_pc = "done"
    /\ rm_result = Err(IncompatibleMerge)
    /\ \/ HasKey(rm_res, "dep", "follows")
       \/ HasKey(rm_res, "dep", "url")

(***************************************************************************)
(* Properties of the tasks of Paths::from_iter.                            *)
(***************************************************************************)
SameRun == p_runs' = p_runs

\* C21: the tasks are those of entries with an url that the loop found
\* invalid; the info documents are read, the aliases resolved and the index
\* returned only when every task has ended, and ended well; after a failed
\* task or a failed test of a destination no index is returned, the task
\* stays failed and the errors raised are all reported.
C21_TasksJoined ==
    /\ [](\A n \in DOMAIN p_tasks :
              /\ n \in Entries("Url")
              /\ Checked(n)
              /\ At(n, "start") => ~ValidFor(p_fs[n], Declared(n)))
    /\ [](PastScope =>
              /\ p_errors = {}
              /\ p_pending = <<>>
              /\ \A n \in DOMAIN p_tasks : At(n, "done"))
    /\ [](Built => p_out.err = {} /\ p_out.index = p_index)
    /\ [](p_errors # {} =>
              /\ ~PastScope
              /\ p_out.err \in {{<<"not run">>}, p_errors}
              /\ p_out.index = NoPaths
              /\ p_pc = "done" => p_out.err = p_errors)
    /\ [](\A n \in DOMAIN p_tasks : At(n, "failed") => p_errors # {})
    /\ [][SameRun =>
              /\ p_errors \subseteq p_errors'
              /\ DOMAIN p_tasks \subseteq DOMAIN p_tasks'
              /\ \A n \in DOMAIN p_tasks :
                     Finished(p_tasks[n]) => p_tasks'[n] = p_tasks[n]]_vars

\* the download of a failed while the folder of dep was linked: two tasks
\* ended and no index is returned
C21_Witness ==
    /\ p_pc = "done"
    /\ At("a", "failed")
    /\ At("dep", "done")
    /\ p_errors = {DownloadError}
    /\ p_out = [err |-> {DownloadError}, index |-> NoPaths]
    /\ p_fs["dep"].kind = "link"

\* the tasks inside the section of make_available that links a folder
Linking == {n \in DOMAIN p_tasks : p_tasks[n].pc = "link"}
LinksTo(dst, path) == dst.kind = "link" /\ dst.link = path

\* C27: at most one task at a time is inside the section that inspects
\* and replaces the link of a folder, and it is the holder of LOCK; every
\* exit from the section, a failure included, releases LOCK; a task that
\* leaves the section well leaves a link to its source folder, and a
\* destination that linked to the source already is left as it was; the
\* destination of a folder changes only inside the section.
C27_LinkUnderLock ==
    /\ [](/\ Cardinality(Linking) <= 1
          /\ \A n \in Linking : p_lock = n
          /\ p_lock # "" => p_lock \in Linking)
    /\ [][\A n \in Linking :
              ~At(n, "link")' /\ SameRun =>
                     /\ p_lock' = ""
                     /\ p_tasks'[n].pc \in {"done", "failed"}
                     /\ p_tasks'[n].pc = "done" =>
                            LinksTo(p_fs'[n], strip_file(Url(n)))
                     /\ p_tasks'[n].pc = "failed" =>
                            SymlinkError \in p_errors' /\ p_fs'[n] = p_fs[n]
                     /\ LinksTo(p_fs[n], strip_file(Url(n))) =>
                            p_fs'[n] = p_fs[n] /\ p_tasks'[n].pc = "done"]_vars
    /\ [][\A n \in DOMAIN p_tasks :
              IsFolder(n) /\ p_fs'[n] # p_fs[n] => n \in Linking]_vars

\* the task of dep waits for LOCK while the task of a, inside the section,
\* finds a stale link
C27_Witness ==
    /\ At("a", "link")
    /\ p_lock = "a"
    /\ At("dep", "lock")
    /\ p_fs["a"] = LinkTo("/src/old", None)
    /\ Url("a") = "file:///src/a"

(***************************************************************************)
(* Properties of the checksum marker across resolutions.                   *)
(***************************************************************************)
\* check_valid_dir has taken the destination of name for valid in this
\* resolution: a directory, no task
Skipped(name) ==
    /\ Checked(name)
    /\ name \notin DOMAIN p_tasks
    /\ p_fs[name].kind = "dir"
    /\ ValidFor(p_fs[name], Declared(name))

\* C28: whenever check_valid_dir takes a destination for valid for the
\* declared checksum, so that no refresh task is spawned, the destination
\* holds the wholly unpacked payload of that digest; the marker never
\* records a checksum whose unpacking failed or did not end.
C28_MarkerMeansUnpacked ==
    \A n \in Destinations :
        Skipped(n) => p_fs[n].payload = Declared(n)

(***************************************************************************)
(* Properties of the search paths of the index.                            *)
(***************************************************************************)
\* the paths of the info document the destination of name holds
Supplemental(name) ==
    IF p_fs[name].kind \in {"dir", "link"} /\ p_fs[name].info.some
    THEN p_fs[name].info.v
    ELSE <<>>

Joined(name, subpaths) ==
    [i \in 1..Len(subpaths) |-> join(destination(name), subpaths[i])]

\* list, then the supplemental paths of name that list lacks
WithSupplemental(name, list) ==
    ExpectedArray(list, Joined(name, Supplemental(name)))

Configured(name) == Binary(p_binaries[name]).paths

\* C22, as stated: the list of an entry is the destination joined with
\* each configured subpath in order, or the destination itself when none
\* is configured, followed by the supplemental paths not yet in the list.
C22_PathsOrDestination ==
    Built =>
        \A n \in Entries("Url") :
            p_out.index.paths[n] =
                WithSupplemental(n, IF Configured(n).some
                                    THEN Joined(n, Configured(n).v)
                                    ELSE <<destination(n)>>)

\* C22, amended: the list of an entry is the destination joined with each
\* configured subpath in order, or the empty list when none is configured,
\* followed by the supplemental paths not yet in the list.
C22_PathsOrNone ==
    Built =>
        \A n \in Entries("Url") :
            p_out.index.paths[n] =
                WithSupplemental(n, IF Configured(n).some
                                    THEN Joined(n, Configured(n).v)
                                    ELSE <<>>)

\* the folder dep has no configured paths and an info document: its list
\* is the path of the document alone; the archive of a lists lib once
C22_Witness ==
    /\ Built
    /\ "dep" \in Entries("Url")
    /\ ~Configured("dep").some
    /\ p_out.index.paths["dep"] = <<join(destination("dep"), "extra")>>
    /\ p_out.index.paths["a"] =
           <<join(destination("a"), "lib"), join(destination("a"), "extra")>>

(***************************************************************************)
(* Properties of the graph read_metadata builds.                           *)
(***************************************************************************)
\* the nodes that record name as a parent
ChildrenOf(ns, name) == {m \in DOMAIN ns : name \in ns[m].parents}

Traversed == rm_pc = "traverse" /\ rm_packages = <<>>

\* C29: while the graph is built and when the traversal has ended, the
\* count of children of every node is the number of nodes that record it
\* as a parent, every recorded parent is a node, and every node but the
\* root has a parent; so the nodes that count no child are the ones nobody
\* records, every parent of a queued node is still in the map during the
\* aggregation, and the aggregation never fails with PackageNotFound.
C29_ChildrenCounted ==
    /\ rm_pc = "traverse" =>
           \A n \in DOMAIN rm_nodes :
               /\ rm_nodes[n].children = Cardinality(ChildrenOf(rm_nodes, n))
               /\ rm_nodes[n].parents \subseteq DOMAIN rm_nodes
               /\ n # "" => rm_nodes[n].parents # {}
               /\ rm_nodes[n].children = 0 <=> ChildrenOf(rm_nodes, n) = {}
    /\ rm_pc = "aggregate" =>
           \A i \in DOMAIN rm_queue :
               rm_queue[i].parents \subseteq DOMAIN rm_nodes
    /\ rm_result # Err(PackageNotFound)

\* the traversal of a diamond has ended: dep records two parents, main
\* counts two children
C29_Witness ==
    /\ Traversed
    /\ {"a", "b", "dep", "main"} \subseteq DOMAIN rm_nodes
    /\ rm_nodes["dep"].parents = {"a", "b"}
    /\ rm_nodes["main"].children = 2
    /\ rm_nodes["dep"].children = 0

(***************************************************************************)
(* Inputs of the reducers with predicates below the first level: a table   *)
(* of dep with a predicate key in it, a true predicate whose table has a   *)
(* predicate as the key of a configuration, and a true predicate whose     *)
(* configuration holds a predicate key.                                    *)
(***************************************************************************)
Final == Table([value |-> String("final")])

NestedPlain ==
    { Table([value |-> String("default")]),
      Table(put([value |-> String("default")], "cfg(unix)", Final)),
      Table(put(EmptyTable, "cfg(any())", Final)) }
NestedCfg ==
    { Table([dep |-> Final]),
      Table(put(EmptyTable, "cfg(all())", Final)),
      Table([dep |-> Table(put(EmptyTable, "cfg(all())", Final))]) }
NestedDocs ==
    UNION { { t \in [d -> NestedPlain \cup NestedCfg] :
                \A k \in d : IF k = "dep" THEN t[k] \in NestedPlain
                                          ELSE t[k] \in NestedCfg }
            : d \in SUBSET {"cfg(all())", "cfg(unix)", "dep"} }

InitNested ==
    /\ r_pc = "start"
    /\ r_table \in NestedDocs
    /\ r_rev \in BOOLEAN
    /\ TARGET \in {Linux, Windows}
    /\ r_reduced = NoResult
    /\ r_node = NoResult
    /\ IdleMerge
    /\ IdleMeta
    /\ IdlePaths

SpecNested == InitNested /\ [][NextReduce]_vars

(***************************************************************************)
(* Properties of the reducers on nested predicates.                        *)
(***************************************************************************)
\* no key of t, at any depth, is a predicate key
RECURSIVE NoCfgKeys(_)
NoCfgKeys(t) ==
    \A k \in DOMAIN t :
        /\ ~IsPredicateKey(k)
        /\ IsTable(t[k]) => NoCfgKeys(payload(t[k]))

\* the predicate keys of t are all below a key that is no predicate
OnlyBelowPlainKeys(t) ==
    \A k \in DOMAIN t :
        IF IsPredicateKey(k) THEN NoCfgKeys(payload(t[k]))
        ELSE TRUE

\* C24: the document reduce returns and the document of a node hold no
\* predicate key at any depth, whether the input has predicate keys inside
\* tables of other keys, as keys of the configurations of a true predicate
\* or inside those configurations.
C24_NoPredicateKeys ==
    /\ r_pc \in {"reduced", "done"} /\ IsOk(r_reduced)
           => NoCfgKeys(r_reduced.t)
    /\ r_pc = "done" /\ IsOk(r_node) => NoCfgKeys(r_node.t)

\* C24, reduce on predicates inside tables of other keys alone
C24_ReduceBelowPlainKeys ==
    r_pc \in {"reduced", "done"} /\ IsOk(r_reduced)
        /\ OnlyBelowPlainKeys(r_table)
        => NoCfgKeys(r_reduced.t)

(***************************************************************************)
(* Properties of the paths of the aggregation.                             *)
(***************************************************************************)
\* the paths from the node n up to a node without parents
RECURSIVE PathsFrom(_, _)
PathsFrom(graph, n) ==
    IF graph[n].parents = {} THEN {<<n>>}
    ELSE UNION { {<<n>> \o p : p \in PathsFrom(graph, q)} :
                    q \in graph[n].parents }

\* the maximal paths of the graph, each from a leaf up to the root
MaximalPaths(graph) ==
    UNION { PathsFrom(graph, l) :
               l \in {n \in DOMAIN graph : graph[n].children = 0} }

\* the documents of the nodes of path merged in turn, with overwrite, into
\* acc
RECURSIVE Accumulate(_, _, _)
Accumulate(graph, acc, path) ==
    IF path = <<>> THEN Ok(acc)
    ELSE LET m == merge_path(acc, graph[Head(path)].table) IN
         IF IsOk(m) THEN Accumulate(graph, m.t, Tail(path)) ELSE m

\* the accumulator of a maximal path: the document of its leaf merged with
\* the document of each ancestor
PathAccumulator(path) ==
    Accumulate(rm_log.graph, rm_log.graph[path[1]].table,
               SubSeq(path, 2, Len(path)))

Flushed == {rm_log.flushed[i] : i \in DOMAIN rm_log.flushed}

\* a node of the graph records more than one parent
Joins == \E n \in DOMAIN rm_log.graph : Cardinality(rm_log.graph[n].parents) > 1

\* C23: every accumulator merged into the result is the accumulator of a
\* maximal path, the document of the leaf merged with overwrite with the
\* document of each ancestor on the path, and when read_metadata returns a
\* document the accumulator of every maximal path has been merged; nodes
\* with several parents included.
C23_PathAccumulators ==
    /\ \A acc \in Flushed :
           \E p \in MaximalPaths(rm_log.graph) : PathAccumulator(p) = Ok(acc)
    /\ Returned /\ IsOk(rm_result) =>
           \A p \in MaximalPaths(rm_log.graph) :
               /\ IsOk(PathAccumulator(p))
               /\ PathAccumulator(p).t \in Flushed

\* C23, where no node records more than one parent
C23_PathAccumulatorsOfTrees ==
    ~Joins => C23_PathAccumulators

(***************************************************************************)
(* Termination of the two loops of read_metadata.  The loops are plain     *)
(* sequential code: a step that can be taken is taken.                     *)
(***************************************************************************)
SpecMetaFair == SpecMeta /\ WF_vars(NextMeta)

\* the sum of the lengths of a set of paths
RECURSIVE TotalLength(_)
TotalLength(paths) ==
    IF paths = {} THEN 0
    ELSE LET p == CHOOSE p \in paths : TRUE
         IN  Len(p) + TotalLength(paths \ {p})

Emptied == rm_pc = "aggregate" /\ rm_queue = <<>>

\* C30, the number of nodes processed: when the worklist is empty every
\* node has been processed once for each maximal path through it, so the
\* nodes taken from the worklist are as many as the nodes of all maximal
\* paths together, and the accumulator is empty.
C30_OncePerPath ==
    Emptied =>
        /\ rm_log.steps = TotalLength(MaximalPaths(rm_log.graph))
        /\ rm_curr = EmptyTable

\* C30, the number of nodes processed where no node records more than one
\* parent
C30_OncePerPathOfTrees ==
    ~Joins => C30_OncePerPath

\* C30, the traversal: when its queue is empty every package reachable
\* from the starting points has been expanded, and a package is expanded
\* only while it is not in the visited set
C30_ExpandedOnce ==
    /\ [](Traversed =>
             rm_visited = Reach(DependencyEdges(rm_data), Members(rm_data)))
    /\ [][rm_visited' # rm_visited =>
             /\ Head(rm_packages)[1] \notin rm_visited
             /\ rm_visited' = rm_visited \cup {Head(rm_packages)[1]}]_vars

\* C30, termination: both loops end and read_metadata returns; whenever
\* the worklist is empty the accumulator is
C30_Terminates ==
    /\ <>(rm_pc = "done")
    /\ [](Emptied => rm_curr = EmptyTable)

(***************************************************************************)
(* Inputs of read_metadata with lists and with sections that do not        *)
(* reduce: main is the root package of a fork (main -> a, main -> b), of a *)
(* chain or of a diamond; a package or the workspace has no section, a     *)
(* section that sets the list of dep, or a section with a predicate that   *)
(* does not parse, one that is not known, or one that guards no table.     *)
(***************************************************************************)
ListSections ==
    { Some([dep |-> Table([list |-> Array(<<String(e)>>)])]) : e \in {"a", "b"} }
ErrorSections ==
    { Some(put(EmptyTable, "cfg(all()", Table(Sets("final")))),
      Some(put(EmptyTable, "cfg(feature = \"a\")", Table(Sets("final")))),
      Some(put(EmptyTable, "cfg(unix)", Integer(1234))) }

SectionMetadatas ==
    { [root_package |-> Some("main"),
       workspace_packages |-> <<"main">>,
       packages |-> Packages,
       dependencies |-> [p \in Packages |-> DependenciesOf(E, p)],
       metadata |-> sec,
       workspace_metadata |-> ws] :
      E \in { {<<"main", "a">>, <<"main", "b">>}, ChainGraph, DiamondGraph },
      sec \in [Packages -> {None} \cup ListSections \cup ErrorSections],
      ws \in {None} \cup ListSections \cup ErrorSections }

InitSections ==
    /\ IdleMerge
    /\ IdleReduce
    /\ IdlePaths
    /\ rm_data \in {metadata \in SectionMetadatas : Canonical(metadata)}
    /\ rm_pc = "traverse"
    /\ rm_packages = starting_points(rm_data)
    /\ rm_nodes = [n \in {""} |-> root_node(rm_data)]
    /\ rm_visited = {}
    /\ rm_res = EmptyTable
    /\ rm_curr = EmptyTable
    /\ rm_queue = <<>>
    /\ rm_result = NoResult
    /\ rm_merge = "merge_default"
    /\ rm_log = NoLog

SpecSections == InitSections /\ [][NextMeta]_vars

(***************************************************************************)
(* The aggregation loop as a function of the state the traversal leaves.   *)
(***************************************************************************)
\* parse.rs:181-201: one turn of the loop
aggregate_step(ns, q, res, curr) ==
    LET node == Head(q)
        pushed == push_parents(ns, Tail(q), descending(node.parents))
        path == merge_path(curr, node.table)
        whole == merge_result(res, path.t)
        error == IF pushed.err # "" THEN pushed.err
                 ELSE IF ~IsOk(path) THEN path.err
                 ELSE IF node.parents = {} /\ ~IsOk(whole) THEN whole.err
                 ELSE ""
    IN  [err |-> error, nodes |-> pushed.nodes, queue |-> pushed.queue,
         res |-> IF node.parents = {} THEN whole.t ELSE res,
         curr |-> IF node.parents = {} THEN EmptyTable ELSE path.t]

\* parse.rs:181-203: the loop until the worklist is empty or a step fails
RECURSIVE aggregate_all(_, _, _, _)
aggregate_all(ns, q, res, curr) ==
    IF q = <<>> THEN Ok(res)
    ELSE LET s == aggregate_step(ns, q, res, curr) IN
         IF s.err # "" THEN Err(s.err)
         ELSE aggregate_all(s.nodes, s.queue, s.res, s.curr)

\* the steps of the aggregation are the steps of aggregate_all: what it
\* returns from the state of the loop does not change until it is returned
AggregateIsFunction ==
    [][/\ rm_pc = "aggregate" /\ rm_pc' = "aggregate" =>
              aggregate_all(rm_nodes', rm_queue', rm_res', rm_curr') =
                  aggregate_all(rm_nodes, rm_queue, rm_res, rm_curr)
       /\ rm_pc = "aggregate" /\ rm_pc' = "done" =>
              rm_result' = aggregate_all(rm_nodes, rm_queue, rm_res, rm_curr)
      ]_vars

(***************************************************************************)
(* Properties of read_metadata as a function of its inputs.                *)
(***************************************************************************)
LeafNames == {n \in DOMAIN rm_nodes : rm_nodes[n].children = 0}

\* the orders in which the node map can yield its leaves
LeafOrders ==
    {o \in [1..Cardinality(LeafNames) -> LeafNames] :
        \A i, j \in DOMAIN o : o[i] = o[j] => i = j}

\* what read_metadata returns when the map yields the leaves in order o
ResultFor(o) ==
    aggregate_all([n \in (DOMAIN rm_nodes) \ LeafNames |-> rm_nodes[n]],
                  [i \in DOMAIN o |-> rm_nodes[o[i]]], EmptyTable, EmptyTable)

\* C25: for the same graph, documents and target, read_metadata returns the
\* same error or the same document, the order of the elements of arrays
\* included, whatever the order in which the node map yields the leaves.
C25_LeafOrderIndependent ==
    Traversed => \A o1, o2 \in LeafOrders : ResultFor(o1) = ResultFor(o2)

\* C25 up to the order of the elements of arrays: two orders of the leaves
\* both fail with the same error or both return a document
C25_SameOutcome ==
    Traversed =>
        \A o1, o2 \in LeafOrders : ResultFor(o1).err = ResultFor(o2).err

(***************************************************************************)
(* Properties of the errors of read_metadata.                              *)
(***************************************************************************)
\* the error MetadataNode::new returns for a section, "" when it returns a
\* node or there is no section
ErrorOf(section) ==
    IF section.some THEN MetadataNode_new(section.v, FALSE, TARGET).err
    ELSE ""

\* the errors of the sections of the packages the traversal reaches
PackageErrors ==
    {ErrorOf(rm_data.metadata[p]) : p \in {q \in Packages : Reached(q)}}
        \ {""}

\* C26: a predicate that is malformed, not supported or guards no table
\* makes read_metadata return that error and no document, whether it is
\* declared in the section of a package or in the section of the workspace
\* that the root node holds.
C26_EveryErrorAborts ==
    Returned =>
        /\ PackageErrors # {} =>
               ~IsOk(rm_result) /\ rm_result.err \in PackageErrors
        /\ ErrorOf(rm_data.workspace_metadata) # "" /\ PackageErrors = {} =>
               rm_result = Err(ErrorOf(rm_data.workspace_metadata))

\* C26 for the sections of packages alone
C26_PackageErrorsAbort ==
    Returned /\ PackageErrors # {} =>
        ~IsOk(rm_result) /\ rm_result.err \in PackageErrors

====
